---- MODULE Spec2Model ----
(***************************************************************************)
(* K-Map-Solver: the Quine-McCluskey minimiser (lib/solver: solveCustom,   *)
(* runQM, diffIndex, formatTerm, formatPosFromTerms) as a state machine.   *)
(* Strings are sequences of one-character strings, number[] are sequences  *)
(* of naturals, Implicant objects are records.                             *)
(***************************************************************************)
EXTENDS Naturals, Integers, Sequences, FiniteSets, TLC

VARIABLES
    variables,          \* solveCustom argument: number of variables
    minterms,           \* solveCustom argument: number[]
    dontCares,          \* solveCustom argument: number[]
    isSop,              \* solveCustom argument
    pc,                 \* position inside solveCustom / runQM
    qmMinterms,         \* runQM parameter `minterms` (the zeros in POS form)
    currentGroups,      \* runQM local
    primeImplicants,    \* runQM local
    uniquePIs,          \* runQM local
    coverage,           \* runQM local
    remainingMinterms,  \* runQM local
    finalPIs,           \* runQM local
    changed,            \* runQM local
    essentialCount,     \* ghost: primes pushed by the essential loop
    greedyBroke,        \* ghost: the greedy loop left through `else break`
    result,             \* value returned by solveCustom (Null before return)
    threw,              \* solveCustom raised an exception
    calls,              \* number of completed calls with these arguments
    firstResult,        \* result of the first completed call
    app,                \* KMapApp: the values held by its useState hooks
    groupRects,         \* KmapGrid: buildGroupOverlays(mapIndex) of each rendered map
    cyclic              \* one call of minimalCyclicInterval: arguments and return value

vars == <<variables, minterms, dontCares, isSop, pc, qmMinterms,
          currentGroups, primeImplicants, uniquePIs, coverage,
          remainingMinterms, finalPIs, changed, essentialCount, greedyBroke,
          result, threw, calls, firstResult, app, groupRects, cyclic>>

\* what lies outside solveCustom
viewVars == <<app, groupRects, cyclic>>

inputVars == <<variables, minterms, dontCares, isSop>>

Null == [null |-> TRUE]

\* KmapGrid has not been rendered with a result yet
NotRendered == [rendered |-> FALSE, maps |-> <<>>, labels |-> Null]

(***************************************************************************)
(* Bounds of the explored input family.                                    *)
(***************************************************************************)
MinVars == 2
MaxVars == 5
MaxMarked == 4      \* 4- and 8-cell maps: cells that differ from the fill value
MaxMarkedWide == 2  \* 16- and 32-cell maps: cells that differ from the fill value
MaxPosWide == 4     \* 16- and 32-cell maps: those cells lie below this position
MaxCalls == 2       \* solveCustom is called at most this often per input
MaxIndices == 4     \* minimalCyclicInterval is handed at most this many indices
MaxDrawn == 4       \* rendered maps: marked cells of a map solved in SOP form
MaxDrawnPos == 2    \* rendered maps: marked cells of a map solved in POS form
MaxEvents == 4      \* KMapApp: user events handled in one run
MaxApplied == 1     \* KMapApp: non-zero rows of a truth table that is applied

(***************************************************************************)
(* Generic array helpers.                                                  *)
(***************************************************************************)
Range(s) == {s[i] : i \in DOMAIN s}

Includes(s, x) == \E i \in DOMAIN s : s[i] = x

RECURSIVE Flat(_)
Flat(ss) == IF ss = <<>> THEN <<>> ELSE Head(ss) \o Flat(Tail(ss))

RECURSIVE Insert(_, _)
Insert(s, x) ==
    IF s = <<>> THEN <<x>>
    ELSE IF x < Head(s) THEN <<x>> \o s
    ELSE <<Head(s)>> \o Insert(Tail(s), x)

\* Array.prototype.sort((a, b) => a - b)
RECURSIVE SortAsc(_)
SortAsc(s) == IF s = <<>> THEN <<>> ELSE Insert(SortAsc(Tail(s)), Head(s))

RECURSIVE pow2(_)
pow2(n) == IF n = 0 THEN 1 ELSE 2 * pow2(n - 1)

Digit(d) ==
    CASE d = 0 -> "0" [] d = 1 -> "1" [] d = 2 -> "2" [] d = 3 -> "3"
      [] d = 4 -> "4" [] d = 5 -> "5" [] d = 6 -> "6" [] d = 7 -> "7"
      [] d = 8 -> "8" [] d = 9 -> "9"

\* Number.prototype.toString(radix) for a natural number
RECURSIVE toString(_, _)
toString(m, radix) ==
    IF m < radix THEN <<Digit(m)>>
    ELSE toString(m \div radix, radix) \o <<Digit(m % radix)>>

\* String.prototype.padStart(n, c)
padStart(s, n, c) ==
    IF Len(s) >= n THEN s ELSE [i \in 1..(n - Len(s)) |-> c] \o s

\* "-".repeat(n)
repeat(c, n) == [i \in 1..n |-> c]

\* bin.split("1").length - 1
countOnes(bin) == Cardinality({i \in DOMAIN bin : bin[i] = "1"})

(***************************************************************************)
(* diffIndex: 0-based index of the single differing character, else -1.    *)
(***************************************************************************)
diffIndex(t1, t2) ==
    LET D == {i \in 1..Len(t1) : i > Len(t2) \/ t1[i] # t2[i]}
    IN IF Cardinality(D) = 1 THEN (CHOOSE i \in D : TRUE) - 1 ELSE -1

\* t1.substring(0, diff) + "-" + t1.substring(diff + 1)
newTerm(t1, diff) == [k \in 1..Len(t1) |-> IF k = diff + 1 THEN "-" ELSE t1[k]]

(***************************************************************************)
(* runQM: seed cubes.  groups[ones].push(...) raises a TypeError when      *)
(* groups[ones] is undefined.                                              *)
(***************************************************************************)
\* Array.from({ length: variables }, ...): one group short
NumGroupsShort(v) == v

NumGroups(v) == v + 1

binOf(m, v) == padStart(toString(m, 2), v, "0")

SeedThrows(v, ms) ==
    \E k \in DOMAIN ms : countOnes(binOf(ms[k], v)) + 1 > NumGroups(v)

SeedGroups(v, ms) ==
    [g \in 1..NumGroups(v) |->
        LET idx == SelectSeq([k \in DOMAIN ms |-> k],
                             LAMBDA k : countOnes(binOf(ms[k], v)) = g - 1)
        IN [j \in DOMAIN idx |->
               [term |-> binOf(ms[idx[j]], v),
                minterms |-> <<ms[idx[j]]>>,
                isPrime |-> TRUE]]]

(***************************************************************************)
(* runQM: one pass of the combination loop.                                *)
(***************************************************************************)
\* nextGroups[i].push(x) unless nextGroups[i].find(t => t.term === x.term)
RECURSIVE PushNew(_, _)
PushNew(acc, items) ==
    IF items = <<>> THEN acc
    ELSE IF \E j \in DOMAIN acc : acc[j].term = Head(items).term
         THEN PushNew(acc, Tail(items))
         ELSE PushNew(Append(acc, Head(items)), Tail(items))

\* the combined cube keeps t1's positions only
RowHitsLeftOnly(t1, g2) ==
    LET partners == SelectSeq(g2, LAMBDA t2 : diffIndex(t1.term, t2.term) # -1)
    IN [b \in DOMAIN partners |->
           [term |-> newTerm(t1.term, diffIndex(t1.term, partners[b].term)),
            minterms |-> t1.minterms,
            isPrime |-> TRUE]]

\* the inner for-loop (t2 of g2) for one t1: the cubes t1 combines into, in g2's order
RowHits(t1, g2) ==
    LET partners == SelectSeq(g2, LAMBDA t2 : diffIndex(t1.term, t2.term) # -1)
    IN [b \in DOMAIN partners |->
           [term |-> newTerm(t1.term, diffIndex(t1.term, partners[b].term)),
            minterms |-> SortAsc(t1.minterms \o partners[b].minterms),
            isPrime |-> TRUE]]

\* the outer for-loop (t1 of g1) for one pair of adjacent groups; acc is nextGroups[i]
RECURSIVE ScanPairs(_, _, _, _)
ScanPairs(g1, g2, a, acc) ==
    IF a > Len(g1) THEN acc
    ELSE ScanPairs(g1, g2, a + 1, PushNew(acc, RowHits(g1[a], g2)))

NextGroups(cur) ==
    [i \in DOMAIN cur |->
        IF i < Len(cur) THEN ScanPairs(cur[i], cur[i + 1], 1, <<>>) ELSE <<>>]

\* only t1.isPrime = false: the cube of the higher group keeps its flag
CombinedLowerOnly(cur, i, a) ==
    i < Len(cur) /\ \E b \in DOMAIN cur[i + 1] :
                       diffIndex(cur[i][a].term, cur[i + 1][b].term) # -1

\* t1.isPrime = false; t2.isPrime = false for every combining pair
Combined(cur, i, a) ==
    \/ i < Len(cur) /\ \E b \in DOMAIN cur[i + 1] :
                          diffIndex(cur[i][a].term, cur[i + 1][b].term) # -1
    \/ i > 1 /\ \E b \in DOMAIN cur[i - 1] :
                          diffIndex(cur[i - 1][b].term, cur[i][a].term) # -1

MarkGroups(cur) ==
    [i \in DOMAIN cur |->
        [a \in DOMAIN cur[i] |->
            [cur[i][a] EXCEPT !.isPrime = @ /\ ~ Combined(cur, i, a)]]]

\* every cube of the pass is pushed, combined or not
PrimesOfAll(marked) == Flat(marked)

\* currentGroups.flat().forEach(t => { if (t.isPrime) primeImplicants.push(t) })
PrimesOf(marked) == SelectSeq(Flat(marked), LAMBDA t : t.isPrime)

(***************************************************************************)
(* runQM: global deduplication by cube string.                             *)
(***************************************************************************)
RECURSIVE Unique(_, _)
Unique(pis, acc) ==
    IF pis = <<>> THEN acc
    ELSE IF \E j \in DOMAIN acc : acc[j].term = Head(pis).term
         THEN Unique(Tail(pis), acc)
         ELSE Unique(Tail(pis), Append(acc, Head(pis)))

(***************************************************************************)
(* runQM: coverage map.                                                    *)
(***************************************************************************)
Count(s, x) == Cardinality({i \in DOMAIN s : s[i] = x})

RECURSIVE CoverageOf(_, _)
CoverageOf(m, pis) ==
    IF pis = <<>> THEN <<>>
    ELSE repeat(Head(pis), Count(Head(pis).minterms, m)) \o CoverageOf(m, Tail(pis))

Coverage(ms, pis) == [m \in Range(ms) |-> CoverageOf(m, pis)]

(***************************************************************************)
(* runQM: one pass of the essential loop.                                  *)
(***************************************************************************)
EssentialSize == 1

Essentials(rem, cov) ==
    SelectSeq(rem, LAMBDA m : m \in DOMAIN cov /\ Len(cov[m]) = EssentialSize)

\* an array filled in the order of `essentials`, repetitions kept
RECURSIVE NewEssentialsList(_, _, _)
NewEssentialsList(ess, cov, acc) ==
    IF ess = <<>> THEN acc
    ELSE NewEssentialsList(Tail(ess), cov, Append(acc, cov[Head(ess)][1]))

\* new Set<Implicant>() filled in the order of `essentials`
RECURSIVE NewEssentials(_, _, _)
NewEssentials(ess, cov, acc) ==
    IF ess = <<>> THEN acc
    ELSE LET pi == cov[Head(ess)][1]
         IN NewEssentials(Tail(ess), cov,
                          IF Includes(acc, pi) THEN acc ELSE Append(acc, pi))

\* the filter with its negation dropped
UncoveredInverted(rem, pi) == SelectSeq(rem, LAMBDA m : Includes(pi.minterms, m))

\* remainingMinterms.filter(m => !pi.minterms.includes(m))
Uncovered(rem, pi) == SelectSeq(rem, LAMBDA m : ~ Includes(pi.minterms, m))

RECURSIVE UncoveredAll(_, _)
UncoveredAll(rem, pis) ==
    IF pis = <<>> THEN rem
    ELSE UncoveredAll(Uncovered(rem, Head(pis)), Tail(pis))

(***************************************************************************)
(* runQM: one pass of the greedy loop (the uniquePIs.forEach scan).        *)
(***************************************************************************)
\* count >= maxCover: the last of several tied primes wins
BetterOrEqual(count, maxCover) == count >= maxCover

Better(count, maxCover) == count > maxCover

\* the filter keeps nothing
RemainingCountZero(pi, rem) == 0

\* the count taken over all of pi.minterms, covered or not
RemainingCountAll(pi, rem) == Len(pi.minterms)

\* pi.minterms.filter(m => remainingMinterms.includes(m)).length
RemainingCount(pi, rem) == Len(SelectSeq(pi.minterms, LAMBDA m : Includes(rem, m)))

RECURSIVE BestPI(_, _, _, _, _)
BestPI(pis, fin, rem, best, maxCover) ==
    IF pis = <<>> THEN [bestPI |-> best, maxCover |-> maxCover]
    ELSE LET pi == Head(pis)
             count == RemainingCount(pi, rem)
         IN IF ~ Includes(fin, pi) /\ Better(count, maxCover)
            THEN BestPI(Tail(pis), fin, rem, pi, count)
            ELSE BestPI(Tail(pis), fin, rem, best, maxCover)

(***************************************************************************)
(* Expression formatting.                                                  *)
(***************************************************************************)
\* the names numbered from 1
varNamesFromOne(v) == [i \in 1..v |-> <<"x", "_">> \o toString(i, 10)]

\* Array.from({ length: variables }, (_, i) => `x_${i}`)
varNames(v) == [i \in 1..v |-> <<"x", "_">> \o toString(i - 1, 10)]

\* Array.prototype.join(sep)
RECURSIVE join(_, _)
join(parts, sep) ==
    IF parts = <<>> THEN <<>>
    ELSE IF Len(parts) = 1 THEN parts[1]
    ELSE parts[1] \o sep \o join(Tail(parts), sep)

SopNegatedBitFlipped == "1"

SopNegatedBit == "0"

\* vars[i] inside a string concatenation: undefined is written "undefined"
nameAt(names, i) ==
    IF i \in DOMAIN names THEN names[i]
    ELSE <<"u", "n", "d", "e", "f", "i", "n", "e", "d">>

RECURSIVE formatTermFrom(_, _, _)
formatTermFrom(term, names, i) ==
    IF i > Len(term) THEN <<>>
    ELSE (IF term[i] # "-"
          THEN nameAt(names, i) \o (IF term[i] = SopNegatedBit THEN <<"'">> ELSE <<>>)
          ELSE <<>>) \o formatTermFrom(term, names, i + 1)

formatTerm(term, names) ==
    IF \A i \in DOMAIN term : term[i] = "-" THEN <<"1">>
    ELSE formatTermFrom(term, names, 1)

PosNegatedBitFlipped == "0"

PosNegatedBit == "1"

\* vars[i] pushed as it is: join() writes an undefined element as ""
plainAt(names, i) == IF i \in DOMAIN names THEN names[i] ELSE <<>>

RECURSIVE posLits(_, _, _)
posLits(term, names, i) ==
    IF i > Len(term) THEN <<>>
    ELSE (IF term[i] = "-" THEN <<>>
          ELSE IF term[i] = PosNegatedBit THEN <<nameAt(names, i) \o <<"'">>>>
          ELSE <<plainAt(names, i)>>) \o posLits(term, names, i + 1)

\* the factor written without its parentheses
posFactorBare(term, names) ==
    LET lits == posLits(term, names, 1)
    IN IF Len(lits) = 0 THEN <<"0">> ELSE join(lits, <<" ", "+", " ">>)

posFactor(term, names) ==
    LET lits == posLits(term, names, 1)
    IN IF Len(lits) = 0 THEN <<"(", "0", ")">>
       ELSE <<"(">> \o join(lits, <<" ", "+", " ">>) \o <<")">>

\* without the all-dash test of line 331
formatPosNoConstant(terms, v) ==
    join([k \in DOMAIN terms |-> posFactor(terms[k], varNames(v))], <<>>)

formatPosFromTerms(terms, v) ==
    IF \E k \in DOMAIN terms :
           Len(terms[k]) >= 1 /\ \A i \in DOMAIN terms[k] : terms[k][i] = "-"
    THEN <<"0">>
    ELSE join([k \in DOMAIN terms |-> posFactor(terms[k], varNames(v))], <<>>)

\* groups listed from the last chosen prime to the first
SolutionGroupsReversed(v, fin) ==
    LET expression == join([k \in DOMAIN fin |-> formatTerm(fin[k].term, varNames(v))],
                           <<" ", "+", " ">>)
    IN [expression |-> IF expression = <<>> THEN <<"0">> ELSE expression,
        groups |-> [k \in DOMAIN fin |-> fin[Len(fin) + 1 - k].minterms],
        terms |-> [k \in DOMAIN fin |-> fin[k].term]]

\* runQM's return value after the covering loops
Solution(v, fin) ==
    LET expression == join([k \in DOMAIN fin |-> formatTerm(fin[k].term, varNames(v))],
                           <<" ", "+", " ">>)
    IN [expression |-> IF expression = <<>> THEN <<"0">> ELSE expression,
        groups |-> [k \in DOMAIN fin |-> fin[k].minterms],
        terms |-> [k \in DOMAIN fin |-> fin[k].term]]

\* solveCustom's return value built from runQM's
Wrap(sop, v, solution) ==
    IF sop THEN [expression |-> solution.expression, essentials |-> solution.groups]
    ELSE [expression |-> formatPosFromTerms(solution.terms, v),
          essentials |-> solution.groups]

\* the two tests in the opposite order
DegenerateCaseFullFirst(qm, dcs, total) ==
    IF Len(qm) + Len(dcs) = total THEN "full"
    ELSE IF Len(qm) = 0 THEN "empty"
    ELSE "none"

\* runQM's early returns: which of the two degenerate tests fires first
DegenerateCase(qm, dcs, total) ==
    IF Len(qm) = 0 THEN "empty"
    ELSE IF Len(qm) + Len(dcs) = total THEN "full"
    ELSE "none"

\* zeros = Array.from(allIndices).sort((a, b) => a - b)
Zeros(v, ms, dcs) ==
    SelectSeq([i \in 1..pow2(v) |-> i - 1],
              LAMBDA p : ~ Includes(ms, p) /\ ~ Includes(dcs, p))

(***************************************************************************)
(* The caller's arrays: buildMintermsFromGrid lists the cells holding "1"  *)
(* and "-" in ascending order.                                             *)
(***************************************************************************)
RECURSIVE SetToSeq(_)
SetToSeq(S) ==
    IF S = {} THEN <<>>
    ELSE LET m == CHOOSE x \in S : \A y \in S : x <= y
         IN <<m>> \o SetToSeq(S \ {m})

CellValues == {0, 1, 2}

\* the cells that may differ from the fill value, and how many of them do
MarkedCells(v) == IF v <= 3 THEN 0..(pow2(v) - 1) ELSE 0..(MaxPosWide - 1)
MarkedLimit(v) == IF v <= 3 THEN MaxMarked ELSE MaxMarkedWide

\* nothing of solveCustom has run yet
LocalsInit ==
    /\ qmMinterms = <<>>
    /\ currentGroups = <<>>
    /\ primeImplicants = <<>>
    /\ uniquePIs = <<>>
    /\ coverage = <<>>
    /\ remainingMinterms = <<>>
    /\ finalPIs = <<>>
    /\ changed = FALSE
    /\ essentialCount = 0
    /\ greedyBroke = FALSE
    /\ result = Null
    /\ threw = FALSE
    /\ calls = 0
    /\ firstResult = Null

Init ==
    /\ \E v \in MinVars..MaxVars, fill \in CellValues :
       \E E \in SUBSET MarkedCells(v) :
          /\ Cardinality(E) <= MarkedLimit(v)
          /\ \E val \in [E -> CellValues \ {fill}] :
                LET table == [p \in 0..(pow2(v) - 1) |->
                                 IF p \in E THEN val[p] ELSE fill]
                IN /\ variables = v
                   /\ minterms = SetToSeq({p \in DOMAIN table : table[p] = 1})
                   /\ dontCares = SetToSeq({p \in DOMAIN table : table[p] = 2})
    /\ isSop \in BOOLEAN
    /\ pc = "call"
    /\ LocalsInit
    /\ app = Null
    /\ groupRects = NotRendered
    /\ cyclic = Null

(***************************************************************************)
(* Actions.                                                                *)
(***************************************************************************)
realLocals == <<currentGroups, primeImplicants, uniquePIs, coverage,
                remainingMinterms, finalPIs, changed>>

localVars == <<realLocals, essentialCount, greedyBroke>>

\* solveCustom returns res
Return(res) ==
    /\ result' = res
    /\ threw' = FALSE
    /\ calls' = calls + 1
    /\ firstResult' = IF calls = 0 THEN res ELSE firstResult
    /\ pc' = "done"

\* an exception leaves solveCustom
Throw ==
    /\ result' = Null
    /\ threw' = TRUE
    /\ calls' = calls + 1
    /\ firstResult' = firstResult
    /\ pc' = "done"

\* solveCustom entry, runQM entry up to the seed cubes (lines 114-169)
Call ==
    /\ pc = "call"
    /\ LET total == pow2(variables)
           zeros == Zeros(variables, minterms, dontCares)
           qm == IF isSop THEN minterms ELSE zeros
           degenerate == DegenerateCase(qm, dontCares, total)
       IN /\ qmMinterms' = qm
          /\ IF ~ isSop /\ Len(zeros) = 0
             THEN /\ Return([expression |-> <<"1">>, essentials |-> <<>>])
                  /\ UNCHANGED realLocals
             ELSE IF degenerate = "empty"
             THEN /\ Return(Wrap(isSop, variables,
                                 [expression |-> <<"0">>, groups |-> <<>>, terms |-> <<>>]))
                  /\ UNCHANGED realLocals
             ELSE IF degenerate = "full"
             THEN /\ Return(Wrap(isSop, variables,
                                 [expression |-> <<"1">>,
                                  groups |-> <<qm \o dontCares>>,
                                  terms |-> <<repeat("-", variables)>>]))
                  /\ UNCHANGED realLocals
             ELSE IF SeedThrows(variables, qm \o dontCares)
             THEN /\ Throw
                  /\ UNCHANGED realLocals
             ELSE /\ currentGroups' = SeedGroups(variables, qm \o dontCares)
                  /\ primeImplicants' = <<>>
                  /\ pc' = "combine"
                  /\ UNCHANGED <<uniquePIs, coverage, remainingMinterms, finalPIs,
                                 changed, result, threw, calls, firstResult>>
    /\ essentialCount' = 0
    /\ greedyBroke' = FALSE
    /\ UNCHANGED inputVars
    /\ UNCHANGED viewVars

\* one iteration of the combination loop (lines 171-209)
CombinePass ==
    /\ pc = "combine"
    /\ IF \E i \in DOMAIN currentGroups : Len(currentGroups[i]) > 0
       THEN LET nextGroups == NextGroups(currentGroups)
                marked == MarkGroups(currentGroups)
            IN /\ primeImplicants' = primeImplicants \o PrimesOf(marked)
               /\ IF \A i \in DOMAIN nextGroups : Len(nextGroups[i]) = 0
                  THEN /\ currentGroups' = marked
                       /\ pc' = "cover"
                  ELSE /\ currentGroups' = nextGroups
                       /\ pc' = "combine"
       ELSE /\ pc' = "cover"
            /\ UNCHANGED <<currentGroups, primeImplicants>>
    /\ UNCHANGED <<qmMinterms, uniquePIs, coverage, remainingMinterms, finalPIs,
                   changed, essentialCount, greedyBroke,
                   result, threw, calls, firstResult>>
    /\ UNCHANGED inputVars
    /\ UNCHANGED viewVars

\* finalPIs kept in a variable that outlives the call
DedupCoverStale ==
    /\ pc = "cover"
    /\ uniquePIs' = Unique(primeImplicants, <<>>)
    /\ remainingMinterms' = qmMinterms
    /\ finalPIs' = finalPIs
    /\ coverage' = Coverage(qmMinterms, uniquePIs')
    /\ changed' = TRUE
    /\ pc' = "essential"
    /\ UNCHANGED <<qmMinterms, currentGroups, primeImplicants, essentialCount,
                   greedyBroke, result, threw, calls, firstResult>>
    /\ UNCHANGED inputVars
    /\ UNCHANGED viewVars

\* deduplication and coverage map (lines 211-235)
DedupCover ==
    /\ pc = "cover"
    /\ uniquePIs' = Unique(primeImplicants, <<>>)
    /\ remainingMinterms' = qmMinterms
    /\ finalPIs' = <<>>
    /\ coverage' = Coverage(qmMinterms, uniquePIs')
    /\ changed' = TRUE
    /\ pc' = "essential"
    /\ UNCHANGED <<qmMinterms, currentGroups, primeImplicants, essentialCount,
                   greedyBroke, result, threw, calls, firstResult>>
    /\ UNCHANGED inputVars
    /\ UNCHANGED viewVars

\* one iteration of the essential loop (lines 236-259)
EssentialPass ==
    /\ pc = "essential"
    /\ IF changed /\ Len(remainingMinterms) > 0
       THEN LET newEssentials ==
                    NewEssentials(Essentials(remainingMinterms, coverage), coverage, <<>>)
            IN /\ changed' = (Len(newEssentials) > 0)
               /\ finalPIs' = finalPIs \o newEssentials
               /\ remainingMinterms' = UncoveredAll(remainingMinterms, newEssentials)
               /\ essentialCount' = essentialCount + Len(newEssentials)
               /\ pc' = "essential"
       ELSE /\ pc' = "greedy"
            /\ UNCHANGED <<changed, finalPIs, remainingMinterms, essentialCount>>
    /\ UNCHANGED <<qmMinterms, currentGroups, primeImplicants, uniquePIs, coverage,
                   greedyBroke, result, threw, calls, firstResult>>
    /\ UNCHANGED inputVars
    /\ UNCHANGED viewVars

\* one iteration of the greedy loop (lines 261-284)
GreedyPass ==
    /\ pc = "greedy"
    /\ IF Len(remainingMinterms) > 0
       THEN LET b == BestPI(uniquePIs, finalPIs, remainingMinterms, Null, -1)
            IN IF b.bestPI # Null /\ b.maxCover > 0
               THEN /\ finalPIs' = Append(finalPIs, b.bestPI)
                    /\ remainingMinterms' = Uncovered(remainingMinterms, b.bestPI)
                    /\ pc' = "greedy"
                    /\ UNCHANGED greedyBroke
               ELSE /\ greedyBroke' = TRUE
                    /\ pc' = "format"
                    /\ UNCHANGED <<finalPIs, remainingMinterms>>
       ELSE /\ pc' = "format"
            /\ UNCHANGED <<finalPIs, remainingMinterms, greedyBroke>>
    /\ UNCHANGED <<qmMinterms, currentGroups, primeImplicants, uniquePIs, coverage,
                   changed, essentialCount, result, threw, calls, firstResult>>
    /\ UNCHANGED inputVars
    /\ UNCHANGED viewVars

\* runQM's return and solveCustom's return (lines 286-299, 135-146)
Format ==
    /\ pc = "format"
    /\ Return(Wrap(isSop, variables, Solution(variables, finalPIs)))
    /\ UNCHANGED <<qmMinterms, localVars>>
    /\ UNCHANGED inputVars
    /\ UNCHANGED viewVars

\* the caller invokes solveCustom again with the same arguments
CallAgain ==
    /\ pc = "done"
    /\ calls < MaxCalls
    /\ pc' = "call"
    /\ UNCHANGED <<qmMinterms, localVars, result, threw, calls, firstResult>>
    /\ UNCHANGED inputVars
    /\ UNCHANGED viewVars

\* one call of solveCustom
Next ==
    \/ Call
    \/ CombinePass
    \/ DedupCover
    \/ EssentialPass
    \/ GreedyPass
    \/ Format

Spec == Init /\ [][Next]_vars

\* repeated calls of solveCustom with the same arguments
NextRepeat ==
    \/ Next
    \/ CallAgain

SpecRepeat == Init /\ [][NextRepeat]_vars

(***************************************************************************)
(* A second call of solveCustom whose arrays list the same positions in    *)
(* another order.                                                          *)
(***************************************************************************)
\* the other orders tried for an array: reversed, and rotated by one place
Reorderings(s) ==
    {[i \in DOMAIN s |-> s[Len(s) + 1 - i]],
     [i \in DOMAIN s |-> s[(i % Len(s)) + 1]]} \ {s}

CallReordered ==
    /\ pc = "done"
    /\ calls = 1
    /\ \E ms \in Reorderings(minterms) \cup {minterms},
          dcs \in Reorderings(dontCares) \cup {dontCares} :
          /\ <<ms, dcs>> # <<minterms, dontCares>>
          /\ minterms' = ms
          /\ dontCares' = dcs
    /\ pc' = "call"
    /\ UNCHANGED <<variables, isSop, qmMinterms, localVars, result, threw, calls,
                   firstResult>>
    /\ UNCHANGED viewVars

NextReordered ==
    \/ Next
    \/ CallReordered

SpecReordered == Init /\ [][NextReordered]_vars

(***************************************************************************)
(* solveCustom as a function of its arguments: the same loops run to their *)
(* end, for the callers that compare a result with the solver's output.    *)
(***************************************************************************)
\* the value that stands for an exception leaving the call
Thrown == [thrown |-> TRUE]

\* the combination loop (lines 171-209): the primes collected when it ends
RECURSIVE combineLoop(_, _)
combineLoop(groups, primes) ==
    IF \E i \in DOMAIN groups : Len(groups[i]) > 0
    THEN LET nextGroups == NextGroups(groups)
             marked == MarkGroups(groups)
         IN IF \A i \in DOMAIN nextGroups : Len(nextGroups[i]) = 0
            THEN primes \o PrimesOf(marked)
            ELSE combineLoop(nextGroups, primes \o PrimesOf(marked))
    ELSE primes

\* the essential loop (lines 236-259)
RECURSIVE essentialLoop(_, _, _, _)
essentialLoop(isChanged, remaining, final, cov) ==
    IF isChanged /\ Len(remaining) > 0
    THEN LET newEssentials == NewEssentials(Essentials(remaining, cov), cov, <<>>)
         IN essentialLoop(Len(newEssentials) > 0,
                          UncoveredAll(remaining, newEssentials),
                          final \o newEssentials, cov)
    ELSE [remaining |-> remaining, final |-> final]

\* the greedy loop (lines 261-284)
RECURSIVE greedyLoop(_, _, _)
greedyLoop(uniq, final, remaining) ==
    IF Len(remaining) > 0
    THEN LET b == BestPI(uniq, final, remaining, Null, -1)
         IN IF b.bestPI # Null /\ b.maxCover > 0
            THEN greedyLoop(uniq, Append(final, b.bestPI), Uncovered(remaining, b.bestPI))
            ELSE final
    ELSE final

runQM(v, qm, dcs) ==
    LET degenerate == DegenerateCase(qm, dcs, pow2(v))
    IN IF degenerate = "empty"
       THEN [expression |-> <<"0">>, groups |-> <<>>, terms |-> <<>>]
       ELSE IF degenerate = "full"
       THEN [expression |-> <<"1">>, groups |-> <<qm \o dcs>>,
             terms |-> <<repeat("-", v)>>]
       ELSE IF SeedThrows(v, qm \o dcs) THEN Thrown
       ELSE LET uniq == Unique(combineLoop(SeedGroups(v, qm \o dcs), <<>>), <<>>)
                e == essentialLoop(TRUE, qm, <<>>, Coverage(qm, uniq))
            IN Solution(v, greedyLoop(uniq, e.final, e.remaining))

solveCustom(v, ms, dcs, sop) ==
    LET zeros == Zeros(v, ms, dcs)
    IN IF ~ sop /\ Len(zeros) = 0
       THEN [expression |-> <<"1">>, essentials |-> <<>>]
       ELSE LET solution == runQM(v, IF sop THEN ms ELSE zeros, dcs)
            IN IF solution = Thrown THEN Thrown ELSE Wrap(sop, v, solution)

(***************************************************************************)
(* lib/kmap-utils: Gray codes, grid dimensions, cell positions.            *)
(***************************************************************************)
\* the second half appended in the same order as the first
ReverseKept(s) == s

Reverse(s) == [i \in DOMAIN s |-> s[Len(s) + 1 - i]]

RECURSIVE generateGrayCodes(_)
generateGrayCodes(n) ==
    IF n <= 0 THEN <<<<>>>>
    ELSE IF n = 1 THEN <<<<"0">>, <<"1">>>>
    ELSE LET prev == generateGrayCodes(n - 1)
         IN [i \in DOMAIN prev |-> <<"0">> \o prev[i]]
            \o [i \in DOMAIN prev |-> <<"1">> \o Reverse(prev)[i]]

getGridDimensions(v) ==
    IF v = 2 THEN [rowBits |-> 1, colBits |-> 1]
    ELSE IF v = 3 THEN [rowBits |-> 1, colBits |-> 2]
    ELSE [rowBits |-> 2, colBits |-> 2]

\* parseInt(s, 2) of a string of binary digits
RECURSIVE parseBinary(_)
parseBinary(s) ==
    IF s = <<>> THEN 0
    ELSE 2 * parseBinary(SubSeq(s, 1, Len(s) - 1)) + (IF s[Len(s)] = "1" THEN 1 ELSE 0)

\* called with three arguments: the map digit leads the string
getMintermIndex(rowGray, colGray, mapIndex) ==
    parseBinary((IF mapIndex = 1 THEN <<"1">> ELSE <<"0">>) \o rowGray \o colGray)

\* the name x_i as the label strings spell it
xName(i) == <<"x", "_">> \o toString(i, 10)

\* the variables each label string lists, in the order of the string
getVariableLabels(v) ==
    IF v = 2 THEN [rows |-> <<xName(1)>>, cols |-> <<xName(0)>>, map |-> <<>>]
    ELSE IF v = 3 THEN [rows |-> <<xName(2)>>, cols |-> <<xName(0), xName(1)>>, map |-> <<>>]
    ELSE IF v = 4 THEN [rows |-> <<xName(2), xName(3)>>,
                        cols |-> <<xName(0), xName(1)>>, map |-> <<>>]
    ELSE IF v = 5 THEN [rows |-> <<xName(2), xName(3)>>,
                        cols |-> <<xName(0), xName(1)>>, map |-> <<xName(4)>>]
    ELSE [rows |-> <<>>, cols |-> <<>>, map |-> <<>>]

(***************************************************************************)
(* components/KmapGrid: minimalCyclicInterval.                             *)
(***************************************************************************)
\* JavaScript's %: the sign of the result is the sign of the dividend
JsMod(a, n) == IF a >= 0 THEN a % n ELSE 0 - ((0 - a) % n)

uniqueSorted(xs) == SetToSeq(Range(xs))

isInCyclicInterval(value, start, len, size) ==
    JsMod(value - start + size, size) < len

\* the inner loop: the first start at which every index is inside, else -1
RECURSIVE FirstStart(_, _, _, _)
FirstStart(uniq, len, start, size) ==
    IF start >= size THEN -1
    ELSE IF \A k \in DOMAIN uniq : isInCyclicInterval(uniq[k], start, len, size)
    THEN start
    ELSE FirstStart(uniq, len, start + 1, size)

\* the outer loop started at len + 1: the scan skips the shortest length
RECURSIVE ScanLengthsFromTwo(_, _, _)
ScanLengthsFromTwo(uniq, len, size) ==
    IF len + 1 > size THEN [start |-> 0, len |-> size]
    ELSE LET start == FirstStart(uniq, len + 1, 0, size)
         IN IF start # -1 THEN [start |-> start, len |-> len + 1]
            ELSE ScanLengthsFromTwo(uniq, len + 1, size)

\* the outer loop: lengths in increasing order, left at the first feasible one
RECURSIVE ScanLengths(_, _, _)
ScanLengths(uniq, len, size) ==
    IF len > size THEN [start |-> 0, len |-> size]
    ELSE LET start == FirstStart(uniq, len, 0, size)
         IN IF start # -1 THEN [start |-> start, len |-> len]
            ELSE ScanLengths(uniq, len + 1, size)

minimalCyclicInterval(indices, size) ==
    IF Len(indices) = 0 THEN [start |-> 0, len |-> 0]
    ELSE LET uniq == uniqueSorted(indices)
         IN IF Len(uniq) = size THEN [start |-> 0, len |-> size]
            ELSE ScanLengths(uniq, 1, size)

\* the axis lengths KmapGrid passes: rowCodes.length and colCodes.length
CyclicSizes ==
    {pow2(getGridDimensions(v).rowBits) : v \in MinVars..MaxVars}
    \cup {pow2(getGridDimensions(v).colBits) : v \in MinVars..MaxVars}

\* no solveCustom call and no app around the function under study
NoSolver ==
    /\ variables = MinVars
    /\ minterms = <<>>
    /\ dontCares = <<>>
    /\ isSop = TRUE
    /\ pc = "idle"
    /\ LocalsInit

InitCyclic ==
    /\ \E size \in CyclicSizes, n \in 0..MaxIndices :
          \E xs \in (IF n = 0 THEN {<<>>} ELSE [1..n -> 0..(size - 1)]) :
              cyclic = [indices |-> xs, size |-> size, result |-> Null]
    /\ NoSolver
    /\ app = Null
    /\ groupRects = NotRendered

\* one call of minimalCyclicInterval(indices, size)
MeasureInterval ==
    /\ cyclic # Null
    /\ cyclic.result = Null
    /\ cyclic' = [cyclic EXCEPT
                     !.result = minimalCyclicInterval(cyclic.indices, cyclic.size)]
    /\ UNCHANGED <<inputVars, pc, qmMinterms, localVars, result, threw, calls,
                   firstResult, app, groupRects>>

NextCyclic == MeasureInterval

SpecCyclic == InitCyclic /\ [][NextCyclic]_vars

(***************************************************************************)
(* components/KmapGrid: buildGroupOverlays for a KmapGrid rendered with    *)
(* the props `variables` = v and `groups`.                                 *)
(***************************************************************************)
rowCodes(v) == generateGrayCodes(getGridDimensions(v).rowBits)
colCodes(v) == generateGrayCodes(getGridDimensions(v).colBits)

\* the row and the column of a cell exchanged
coordByMintermTransposed(v, mapIndex) ==
    LET rs == rowCodes(v)
        cs == colCodes(v)
        cells == (0..(Len(rs) - 1)) \X (0..(Len(cs) - 1))
        at == [cell \in cells |-> getMintermIndex(rs[cell[1] + 1], cs[cell[2] + 1], mapIndex)]
    IN [m \in {at[cell] : cell \in cells} |->
           LET cell == CHOOSE cell \in cells : at[cell] = m
           IN [r |-> cell[2], c |-> cell[1]]]

\* coordByMinterm: filled row by row, a later set() overwrites an earlier one
coordByMinterm(v, mapIndex) ==
    LET rs == rowCodes(v)
        cs == colCodes(v)
        C == Len(cs)
        cells == (0..(Len(rs) - 1)) \X (0..(C - 1))
        at == [cell \in cells |-> getMintermIndex(rs[cell[1] + 1], cs[cell[2] + 1], mapIndex)]
        last(m) == CHOOSE cell \in cells :
                      /\ at[cell] = m
                      /\ \A other \in cells :
                            at[other] = m => other[1] * C + other[2] <= cell[1] * C + cell[2]
    IN [m \in {at[cell] : cell \in cells} |-> [r |-> last(m)[1], c |-> last(m)[2]]]

NumText(n) == IF n < 0 THEN <<"-">> \o toString(0 - n, 10) ELSE toString(n, 10)

\* start + len >= size: an interval ending at the edge counts as wrapping
WrapsAtEdge(interval, size) == interval.start + interval.len >= size

\* rowWraps / colWraps
Wraps(interval, size) == interval.start + interval.len > size

\* the rects pushed for one group (the body of groups.forEach)
groupTiles(v, coordOf, group, groupId) ==
    LET found == SelectSeq(group, LAMBDA m : m \in DOMAIN coordOf)
        rows == [k \in DOMAIN found |-> coordOf[found[k]].r]
        cols == [k \in DOMAIN found |-> coordOf[found[k]].c]
        R == Len(rowCodes(v))
        C == Len(colCodes(v))
        rowInterval == minimalCyclicInterval(rows, R)
        colInterval == minimalCyclicInterval(cols, C)
        yOffsets == IF Wraps(rowInterval, R) THEN <<0, 0 - R>> ELSE <<0>>
        xOffsets == IF Wraps(colInterval, C) THEN <<0, 0 - C>> ELSE <<0>>
    IN IF Len(found) = 0 THEN <<>>
       ELSE [t \in 1..(Len(yOffsets) * Len(xOffsets)) |->
                LET dy == yOffsets[((t - 1) \div Len(xOffsets)) + 1]
                    dx == xOffsets[((t - 1) % Len(xOffsets)) + 1]
                IN [groupId |-> groupId,
                    x |-> colInterval.start + dx,
                    y |-> rowInterval.start + dy,
                    w |-> colInterval.len,
                    h |-> rowInterval.len,
                    area |-> colInterval.len * rowInterval.len,
                    tileId |-> NumText(groupId) \o <<":">> \o NumText(dx)
                               \o <<":">> \o NumText(dy)]]

\* a.area - b.area || a.groupId - b.groupId: smaller areas first
compareRectsAscending(a, b) ==
    IF a.area - b.area # 0 THEN a.area - b.area ELSE a.groupId - b.groupId

\* the comparator of rects.sort: b.area - a.area || a.groupId - b.groupId
compareRects(a, b) ==
    IF b.area - a.area # 0 THEN b.area - a.area ELSE a.groupId - b.groupId

\* Array.prototype.sort is stable: x goes behind every element not after it
RECURSIVE sortRects(_, _)
sortRects(rects, acc) ==
    IF rects = <<>> THEN acc
    ELSE LET x == Head(rects)
             keep == {k \in DOMAIN acc : compareRects(acc[k], x) <= 0}
             n == IF keep = {} THEN 0 ELSE CHOOSE k \in keep : \A j \in keep : j <= k
         IN sortRects(Tail(rects),
                      SubSeq(acc, 1, n) \o <<x>> \o SubSeq(acc, n + 1, Len(acc)))

RECURSIVE pushTiles(_, _, _, _)
pushTiles(v, coordOf, groups, groupId) ==
    IF groupId >= Len(groups) THEN <<>>
    ELSE groupTiles(v, coordOf, groups[groupId + 1], groupId)
         \o pushTiles(v, coordOf, groups, groupId + 1)

\* shown is the app's result: KmapGrid receives groups = result?.essentials
buildGroupOverlays(v, shown, mapIndex) ==
    IF shown = Null THEN <<>>
    ELSE IF Len(shown.essentials) = 0 THEN <<>>
    ELSE sortRects(pushTiles(v, coordByMinterm(v, mapIndex), shown.essentials, 0), <<>>)

\* the maps KmapGrid renders: renderGrid(0), and renderGrid(1) for five variables
mapIndices(v) == IF v = 5 THEN {0, 1} ELSE {0}

\* the mintermIndex of the KmapCell drawn at row r, column c of a map
cellIndex(v, r, c, mapIndex) ==
    getMintermIndex(rowCodes(v)[r + 1], colCodes(v)[c + 1], mapIndex)

\* the cells that may be marked in a rendered map: they include the four
\* corners of a map and cells of both maps of a five-variable function
DrawnCells(v) ==
    IF v = 2 THEN {0, 1, 2, 3}
    ELSE IF v = 3 THEN {0, 1, 2, 3, 4, 6}
    ELSE IF v = 4 THEN {0, 2, 5, 7, 8, 10}
    ELSE {0, 2, 8, 10, 16, 18}

InitOverlay ==
    /\ \E v \in MinVars..MaxVars, sop \in BOOLEAN :
       \E E \in SUBSET DrawnCells(v) :
          /\ Cardinality(E) <= (IF sop THEN MaxDrawn ELSE MaxDrawnPos)
          /\ \E val \in [E -> {1, 2}] :
                /\ variables = v
                /\ isSop = sop
                /\ minterms = SetToSeq({p \in E : val[p] = 1})
                /\ dontCares = SetToSeq({p \in E : val[p] = 2})
    /\ pc = "call"
    /\ LocalsInit
    /\ app = Null
    /\ groupRects = NotRendered
    /\ cyclic = Null

\* KmapGrid is rendered with variables and groups = result?.essentials of the
\* call that has just returned: renderGrid builds the overlays of each map
RenderGrid ==
    /\ pc = "done"
    /\ ~ groupRects.rendered
    /\ groupRects' =
          [rendered |-> TRUE,
           maps |-> [i \in 1..Cardinality(mapIndices(variables)) |->
                        buildGroupOverlays(variables, result, i - 1)],
           labels |-> getVariableLabels(variables)]
    /\ UNCHANGED <<inputVars, pc, qmMinterms, localVars, result, threw, calls,
                   firstResult, app, cyclic>>

NextOverlay ==
    \/ Next
    \/ RenderGrid

SpecOverlay == InitOverlay /\ [][NextOverlay]_vars

(***************************************************************************)
(* KMapApp: the state of the app and its event handlers.  app.events is a  *)
(* ghost counter of the user events handled so far.                        *)
(***************************************************************************)
DefaultNumVars == 4

\* the cells the user clicks, on the map or in the truth-table pane
AppCells == {1, 4, 7}

\* Object.entries lists integer keys in ascending order; the arrays are sorted
buildMintermsFromGrid(grid) ==
    [minterms |-> SetToSeq({i \in DOMAIN grid : grid[i] = "1"}),
     dontCares |-> SetToSeq({i \in DOMAIN grid : grid[i] = "-"})]

\* { ...prev, [idx]: next }
withCell(grid, idx, val) ==
    [i \in DOMAIN grid \cup {idx} |-> IF i = idx THEN val ELSE grid[i]]

\* setsFromTable(variables, table): the rows 0 .. 2^variables - 1 holding 1 and 2
setsFromTable(v, table) ==
    [minterms |-> SetToSeq({i \in 0..(pow2(v) - 1) : i \in DOMAIN table /\ table[i] = 1}),
     dontCares |-> SetToSeq({i \in 0..(pow2(v) - 1) : i \in DOMAIN table /\ table[i] = 2})]

\* onApply: the sparse grid rebuilt from the two lists
gridFromSets(sets) ==
    [i \in Range(sets.minterms) \cup Range(sets.dontCares) |->
        IF Includes(sets.dontCares, i) THEN "-" ELSE "1"]

InitApp ==
    /\ app = [numVars |-> DefaultNumVars, isSop |-> TRUE, grid |-> <<>>,
              result |-> Null, isSolving |-> FALSE, messageKey |-> "null",
              ttOpen |-> FALSE,
              table |-> [i \in 0..(pow2(DefaultNumVars) - 1) |-> 0],
              lastModal |-> "none",
              events |-> 0]
    /\ NoSolver
    /\ groupRects = NotRendered
    /\ cyclic = Null

solverVars == <<inputVars, pc, qmMinterms, localVars, result, threw, calls, firstResult>>

\* between two handlers: the Solve button is enabled (disabled={isSolving})
\* and the truth-table modal, which covers the page, is closed
Idle == pc = "idle" /\ ~ app.isSolving /\ ~ app.ttOpen /\ app.events < MaxEvents

\* toggleCell(idx), from a KmapCell or a truth-table row of the current size
ToggleCell ==
    /\ Idle
    /\ \E idx \in AppCells \cap 0..(pow2(app.numVars) - 1) :
          LET current == IF idx \in DOMAIN app.grid THEN app.grid[idx] ELSE "0"
              next == IF current = "0" THEN "1" ELSE IF current = "1" THEN "-" ELSE "0"
          IN app' = [app EXCEPT !.grid = withCell(app.grid, idx, next),
                                !.events = @ + 1]
    /\ UNCHANGED <<solverVars, groupRects, cyclic>>

\* the variables ToggleGroup: onValueChange(v) with v && setNumVars(parseInt(v, 10))
SetNumVars ==
    /\ Idle
    /\ \E v \in (MinVars..MaxVars) \ {app.numVars} :
          app' = [app EXCEPT !.numVars = v, !.events = @ + 1]
    /\ UNCHANGED <<solverVars, groupRects, cyclic>>

\* the form ToggleGroup with a handler that keeps the result on the screen
SetFormKeepsResult ==
    /\ Idle
    /\ app' = [app EXCEPT !.isSop = ~ @,
                          !.messageKey = IF app.result # Null THEN "modeChanged" ELSE "null",
                          !.events = @ + 1]
    /\ UNCHANGED <<solverVars, groupRects, cyclic>>

\* the form ToggleGroup: onValueChange with the other form
SetForm ==
    /\ Idle
    /\ app' = [app EXCEPT !.isSop = ~ @,
                          !.result = Null,
                          !.messageKey = IF app.result # Null THEN "modeChanged" ELSE "null",
                          !.events = @ + 1]
    /\ UNCHANGED <<solverVars, groupRects, cyclic>>

clearGrid ==
    /\ Idle
    /\ app' = [app EXCEPT !.grid = <<>>, !.result = Null, !.messageKey = "null",
                          !.events = @ + 1]
    /\ UNCHANGED <<solverVars, groupRects, cyclic>>

\* TruthTableModal handleOk with a draft table, and the app's onApply
ApplyTruthTable ==
    /\ Idle
    /\ \E E \in SUBSET (AppCells \cap 0..(pow2(app.numVars) - 1)) :
          /\ Cardinality(E) <= MaxApplied
          /\ \E val \in [E -> {1, 2}] :
                LET table == [i \in 0..(pow2(app.numVars) - 1) |->
                                 IF i \in E THEN val[i] ELSE 0]
                IN app' = [app EXCEPT
                             !.grid = gridFromSets(setsFromTable(app.numVars, table)),
                             !.result = Null,
                             !.messageKey = "null",
                             !.events = @ + 1]
    /\ UNCHANGED <<solverVars, groupRects, cyclic>>

\* solve, up to the call solveLocal -> solveCustom(numVars, minterms, dontCares, isSop)
SolveStart ==
    /\ Idle
    /\ app' = [app EXCEPT !.isSolving = TRUE, !.messageKey = "null", !.events = @ + 1]
    /\ variables' = app.numVars
    /\ minterms' = buildMintermsFromGrid(app.grid).minterms
    /\ dontCares' = buildMintermsFromGrid(app.grid).dontCares
    /\ isSop' = app.isSop
    /\ pc' = "call"
    /\ UNCHANGED <<qmMinterms, localVars, result, threw, calls, firstResult,
                   groupRects, cyclic>>

\* solve with a catch block that only sets the message
SolveEndKeepsResult ==
    /\ pc = "done"
    /\ app # Null
    /\ app.isSolving
    /\ app' = [app EXCEPT
                 !.result = IF threw THEN app.result
                            ELSE [expression |-> result.expression,
                                  essentials |-> result.essentials,
                                  meta |-> [isSop |-> isSop, variables |-> variables]],
                 !.messageKey = IF threw THEN "solveFailed" ELSE @,
                 !.isSolving = FALSE]
    /\ pc' = "idle"
    /\ qmMinterms' = <<>>
    /\ currentGroups' = <<>>
    /\ primeImplicants' = <<>>
    /\ uniquePIs' = <<>>
    /\ coverage' = <<>>
    /\ remainingMinterms' = <<>>
    /\ finalPIs' = <<>>
    /\ changed' = FALSE
    /\ essentialCount' = 0
    /\ greedyBroke' = FALSE
    /\ result' = Null
    /\ threw' = FALSE
    /\ calls' = 0
    /\ firstResult' = Null
    /\ UNCHANGED <<inputVars, groupRects, cyclic>>

\* solve, after the await: setResult / the catch block, and the finally block
SolveEnd ==
    /\ pc = "done"
    /\ app # Null
    /\ app.isSolving
    /\ app' = [app EXCEPT
                 !.result = IF threw THEN Null
                            ELSE [expression |-> result.expression,
                                  essentials |-> result.essentials,
                                  meta |-> [isSop |-> isSop, variables |-> variables]],
                 !.messageKey = IF threw THEN "solveFailed" ELSE @,
                 !.isSolving = FALSE]
    /\ pc' = "idle"
    /\ qmMinterms' = <<>>
    /\ currentGroups' = <<>>
    /\ primeImplicants' = <<>>
    /\ uniquePIs' = <<>>
    /\ coverage' = <<>>
    /\ remainingMinterms' = <<>>
    /\ finalPIs' = <<>>
    /\ changed' = FALSE
    /\ essentialCount' = 0
    /\ greedyBroke' = FALSE
    /\ result' = Null
    /\ threw' = FALSE
    /\ calls' = 0
    /\ firstResult' = Null
    /\ UNCHANGED <<inputVars, groupRects, cyclic>>

NextApp ==
    \/ ToggleCell
    \/ SetNumVars
    \/ SetForm
    \/ clearGrid
    \/ ApplyTruthTable
    \/ SolveStart
    \/ Next
    \/ SolveEnd

SpecApp == InitApp /\ [][NextApp]_vars

(***************************************************************************)
(* TruthTableModal: the draft table and its handlers.  app.ttOpen is the   *)
(* app's ttOpen, app.table the modal's table state, app.lastModal a ghost  *)
(* naming the modal handler that ran last.                                 *)
(***************************************************************************)
\* positions outside the table are skipped; don't-cares are written last
buildTableFromSets(v, ms, dcs) ==
    [i \in 0..(pow2(v) - 1) |->
        IF Includes(dcs, i) THEN 2 ELSE IF Includes(ms, i) THEN 1 ELSE 0]

\* the table the modal shows for the current map
syncedTable ==
    LET sets == buildMintermsFromGrid(app.grid)
    IN buildTableFromSets(app.numVars, sets.minterms, sets.dontCares)

InModal == pc = "idle" /\ app.ttOpen /\ app.events < MaxEvents

\* the modal opened without the effect that syncs the draft
OpenModalKeepsDraft ==
    /\ Idle
    /\ app' = [app EXCEPT !.ttOpen = TRUE, !.lastModal = "open", !.events = @ + 1]
    /\ UNCHANGED <<solverVars, groupRects, cyclic>>

\* setTTOpen(true), and the effect on [open, variables, minterms, dontCares]
OpenModal ==
    /\ Idle
    /\ app' = [app EXCEPT !.ttOpen = TRUE, !.table = syncedTable,
                          !.lastModal = "open", !.events = @ + 1]
    /\ UNCHANGED <<solverVars, groupRects, cyclic>>

\* toggle(i) on a row of the draft
ModalToggle ==
    /\ InModal
    /\ \E i \in AppCells \cap DOMAIN app.table :
          LET cur == app.table[i]
              next == IF cur = 0 THEN 1 ELSE IF cur = 1 THEN 2 ELSE 0
          IN app' = [app EXCEPT !.table = [app.table EXCEPT ![i] = next],
                                !.lastModal = "toggle", !.events = @ + 1]
    /\ UNCHANGED <<solverVars, groupRects, cyclic>>

\* clear: Array(size).fill(0)
ModalClear ==
    /\ InModal
    /\ app' = [app EXCEPT !.table = [i \in 0..(pow2(app.numVars) - 1) |-> 0],
                          !.lastModal = "clear", !.events = @ + 1]
    /\ UNCHANGED <<solverVars, groupRects, cyclic>>

\* onClose from Cancel or the backdrop: setTTOpen(false)
ModalClose ==
    /\ InModal
    /\ app' = [app EXCEPT !.ttOpen = FALSE, !.lastModal = "cancel", !.events = @ + 1]
    /\ UNCHANGED <<solverVars, groupRects, cyclic>>

\* handleOk: onApply(setsFromTable(variables, table)), then onClose
ModalOk ==
    /\ InModal
    /\ app' = [app EXCEPT
                 !.grid = gridFromSets(setsFromTable(app.numVars, app.table)),
                 !.result = Null,
                 !.messageKey = "null",
                 !.ttOpen = FALSE,
                 !.lastModal = "ok",
                 !.events = @ + 1]
    /\ UNCHANGED <<solverVars, groupRects, cyclic>>

NextModal ==
    \/ ToggleCell
    \/ SetNumVars
    \/ SetForm
    \/ clearGrid
    \/ SolveStart
    \/ Next
    \/ SolveEnd
    \/ OpenModal
    \/ ModalToggle
    \/ ModalClear
    \/ ModalClose
    \/ ModalOk

SpecModal == InitApp /\ [][NextModal]_vars

(***************************************************************************)
(* Vocabulary of the properties: the function being minimised, and the     *)
(* meaning of a returned expression, read back from its characters.        *)
(***************************************************************************)
AllPositions == 0..(pow2(variables) - 1)
trueSet == Range(minterms)
dontCareSet == Range(dontCares)
zeroSet == AllPositions \ (trueSet \cup dontCareSet)
Required == IF isSop THEN trueSet ELSE zeroSet

Returned == pc = "done" /\ result # Null

\* value of variable x_i at position p (x_0 is the most significant bit)
Bit(p, i) == (p \div pow2(variables - 1 - i)) % 2

GroupSets == {Range(result.essentials[k]) : k \in DOMAIN result.essentials}
GroupUnion == UNION GroupSets

IsDigit(c) == c \in {"0", "1", "2", "3", "4", "5", "6", "7", "8", "9"}
DigitVal(c) == CHOOSE d \in 0..9 : Digit(d) = c

RECURSIVE NumberAt(_, _, _)
NumberAt(s, k, acc) ==
    IF k <= Len(s) /\ IsDigit(s[k])
    THEN NumberAt(s, k + 1, 10 * acc + DigitVal(s[k]))
    ELSE [value |-> acc, next |-> k]

\* the literal x_<n> or x_<n>' that starts at character k
LiteralAt(s, k) ==
    LET n == NumberAt(s, k + 2, 0)
    IN [var |-> n.value, neg |-> n.next <= Len(s) /\ s[n.next] = "'"]

LiteralStarts(s) == {k \in DOMAIN s : s[k] = "x"}

LiteralTrue(s, k, p) ==
    LET l == LiteralAt(s, k)
    IN IF l.neg THEN Bit(p, l.var) = 0 ELSE Bit(p, l.var) = 1

\* index of the product term of a sum / of the factor of a product that holds character k
TermOf(s, k) == Cardinality({j \in 1..(k - 1) : s[j] = "+"})
FactorOf(s, k) == Cardinality({j \in 1..k : s[j] = "("})

SopValue(s, p) ==
    \E t \in 0..Cardinality({j \in DOMAIN s : s[j] = "+"}) :
        LET lits == {k \in LiteralStarts(s) : TermOf(s, k) = t}
        IN /\ \A k \in lits : LiteralTrue(s, k, p)
           /\ lits = {} => \E k \in DOMAIN s : TermOf(s, k) = t /\ s[k] = "1"

PosValue(s, p) ==
    \A f \in 1..Cardinality({j \in DOMAIN s : s[j] = "("}) :
        \E k \in LiteralStarts(s) : FactorOf(s, k) = f /\ LiteralTrue(s, k, p)

EvalExpression(s, sop, p) ==
    IF s = <<"0">> THEN FALSE
    ELSE IF s = <<"1">> THEN TRUE
    ELSE IF sop THEN SopValue(s, p) ELSE PosValue(s, p)

(***************************************************************************)
(* C1 -- Soundness: the returned expression, evaluated at every position,  *)
(* is TRUE on every position of trueSet and FALSE on every position that   *)
(* is neither in trueSet nor in dontCareSet, in SOP and in POS form.       *)
(***************************************************************************)
Soundness ==
    Returned =>
        \A p \in AllPositions :
            /\ p \in trueSet => EvalExpression(result.expression, isSop, p)
            /\ p \in zeroSet => ~ EvalExpression(result.expression, isSop, p)

SoundnessWitness ==
    /\ Returned
    /\ ~ isSop
    /\ variables >= 3
    /\ Len(result.essentials) >= 2
    /\ \E p \in dontCareSet : EvalExpression(result.expression, isSop, p)
    /\ \E p \in dontCareSet : ~ EvalExpression(result.expression, isSop, p)

(***************************************************************************)
(* C2 -- Coverage.  As claimed: the union of the returned groups equals    *)
(* exactly the required positions (trueSet in SOP, the zero positions in   *)
(* POS), also when dontCareSet is non-empty.                               *)
(***************************************************************************)
CoverageExact == Returned => GroupUnion = Required

\* C2 as amended: the union of the returned groups, with the don't-care
\* positions taken out, equals exactly the required positions; the groups
\* may contain don't-care positions and nothing else besides.
CoverageUpToDontCares == Returned => GroupUnion \ dontCareSet = Required

CoverageWitness ==
    /\ Returned
    /\ Len(result.essentials) >= 2
    /\ GroupUnion \cap dontCareSet # {}
    /\ dontCareSet \ GroupUnion # {}

(***************************************************************************)
(* Cubes and prime implicants, defined from the function alone.            *)
(***************************************************************************)
CubePatterns == {c : c \in [1..variables -> {"0", "1", "-"}]}

Matches(c, p) == \A i \in 1..variables : c[i] = "-" \/ c[i] = Digit(Bit(p, i - 1))

CubePositions(c) == {p \in AllPositions : Matches(c, p)}

PositionBits(p) == [i \in 1..variables |-> Digit(Bit(p, i - 1))]

\* the cubes all of whose positions are required or don't-care: those that
\* match no position outside that set
Implicants ==
    LET excluded == {PositionBits(p) : p \in AllPositions \ (Required \cup dontCareSet)}
    IN {c \in CubePatterns :
           \A b \in excluded : \E i \in 1..variables : c[i] # "-" /\ c[i] # b[i]}

\* an implicant is prime when freeing any one of its fixed variables leaves the function
PrimePatterns ==
    LET imps == Implicants
    IN {c \in imps : \A i \in 1..variables :
                        c[i] # "-" => [c EXCEPT ![i] = "-"] \notin imps}

PrimeSets == {CubePositions(c) : c \in PrimePatterns}

(***************************************************************************)
(* C3 -- Every essential prime implicant is in the returned cover: when a  *)
(* required position is covered by exactly one prime implicant of the      *)
(* required-plus-don't-care positions, that prime's position set is one of *)
(* the returned groups.                                                    *)
(***************************************************************************)
EssentialPrimesInCover ==
    Returned /\ Required # {} =>
        LET primes == PrimeSets
        IN \A m \in Required :
              LET covering == {S \in primes : m \in S}
              IN Cardinality(covering) = 1 => covering \subseteq GroupSets

EssentialPrimesWitness ==
    /\ Returned
    /\ essentialCount >= 2
    /\ Len(result.essentials) > essentialCount
    /\ dontCareSet # {}
    /\ \E m \in Required : Cardinality({S \in PrimeSets : m \in S}) = 1

(***************************************************************************)
(* C4 -- Minimal cost.  As claimed: no set of implicants that covers all   *)
(* required positions has fewer terms than solveCustom returns.  Every     *)
(* implicant lies inside a prime implicant, so covers by primes decide it. *)
(***************************************************************************)
\* some k of the given position sets cover R
RECURSIVE CanCover(_, _, _)
CanCover(R, k, sets) ==
    IF R = {} THEN TRUE
    ELSE IF k = 0 THEN FALSE
    ELSE LET m == CHOOSE x \in R : \A y \in R : x <= y
         IN \E S \in sets : m \in S /\ CanCover(R \ S, k - 1, sets)

NumTerms == Len(result.essentials)

GreedyCount == NumTerms - essentialCount

MinimalCost ==
    Returned /\ NumTerms >= 1 => ~ CanCover(Required, NumTerms - 1, PrimeSets)

\* C4 as amended: the returned cover is minimal-cost whenever the greedy
\* loop contributed at most two of its primes (in particular when it
\* consists of essential primes only); beyond that it need not be.
MinimalWhenGreedyShort ==
    Returned /\ NumTerms >= 1 /\ GreedyCount <= 2 =>
        ~ CanCover(Required, NumTerms - 1, PrimeSets)

MinimalWitness ==
    /\ Returned
    /\ GreedyCount = 2
    /\ NumTerms = 2
    /\ dontCareSet # {}

(***************************************************************************)
(* C5 -- Determinism: a second call of solveCustom with identical          *)
(* arguments returns the same expression and the same groups, order        *)
(* included, as the first call.                                            *)
(***************************************************************************)
SameResultOnRepeat == pc = "done" /\ calls >= 2 => result = firstResult

SameResultWitness ==
    /\ pc = "done"
    /\ calls = 2
    /\ result # Null
    /\ Len(result.essentials) >= 3
    /\ essentialCount < Len(result.essentials)

(***************************************************************************)
(* C6 -- Constant 0.  As claimed: with trueSet = {} and dontCareSet = {}   *)
(* both forms return expression "0" and no groups.                         *)
(***************************************************************************)
NoMarkedCell == minterms = <<>> /\ dontCares = <<>>

ConstantZeroNoGroups ==
    Returned /\ NoMarkedCell =>
        result.expression = <<"0">> /\ result.essentials = <<>>

\* C6 as amended: both forms return expression "0"; SOP returns no groups,
\* POS returns the one zero-group that holds every position.
ConstantZero ==
    Returned /\ NoMarkedCell =>
        /\ result.expression = <<"0">>
        /\ isSop => result.essentials = <<>>
        /\ ~ isSop => result.essentials = <<[k \in 1..pow2(variables) |-> k - 1]>>

ConstantZeroWitness == Returned /\ NoMarkedCell /\ ~ isSop /\ variables = 5

(***************************************************************************)
(* C7 -- Constant 1.  As claimed: whenever trueSet and dontCareSet fill    *)
(* the whole position space, the expression is "1" and there is exactly    *)
(* one group, the set of all positions.                                    *)
(***************************************************************************)
FullSpace == trueSet \cup dontCareSet = AllPositions

ConstantOneOneGroup ==
    Returned /\ FullSpace =>
        /\ result.expression = <<"1">>
        /\ Len(result.essentials) = 1
        /\ Range(result.essentials[1]) = AllPositions

\* C7 as amended: SOP with a non-empty trueSet returns "1" and exactly one
\* group, the set of all positions; SOP with an empty trueSet returns "0"
\* and no groups; POS returns "1" and no groups.
ConstantOne ==
    Returned /\ FullSpace =>
        /\ isSop /\ trueSet # {} =>
              /\ result.expression = <<"1">>
              /\ Len(result.essentials) = 1
              /\ Range(result.essentials[1]) = AllPositions
        /\ isSop /\ trueSet = {} =>
              result.expression = <<"0">> /\ result.essentials = <<>>
        /\ ~ isSop =>
              result.expression = <<"1">> /\ result.essentials = <<>>

ConstantOneWitness ==
    Returned /\ FullSpace /\ isSop /\ trueSet # {} /\ dontCareSet # {} /\ variables = 5

(***************************************************************************)
(* C8 -- No error path: for every in-domain input, an empty trueSet        *)
(* included, solveCustom returns a result and does not throw.              *)
(***************************************************************************)
NeverThrows == ~ threw /\ (pc = "done" => result # Null)

\* a call that seeded the all-ones position, whose popcount indexes the last group
NeverThrowsWitness ==
    /\ Returned
    /\ variables = 5
    /\ Len(primeImplicants) >= 2
    /\ Len(currentGroups) = variables + 1
    /\ (pow2(variables) - 1) \in Range(qmMinterms) \cup dontCareSet

(***************************************************************************)
(* Text of a sum of products, written from the returned groups alone.      *)
(***************************************************************************)
\* the cube spanned by a group: a variable is fixed when all positions agree on it
GroupCube(g) ==
    [i \in 1..variables |->
        IF \A p \in Range(g) : Bit(p, i - 1) = 0 THEN "0"
        ELSE IF \A p \in Range(g) : Bit(p, i - 1) = 1 THEN "1"
        ELSE "-"]

RECURSIVE ProductText(_, _, _)
ProductText(c, negatedBit, i) ==
    IF i > Len(c) THEN <<>>
    ELSE (IF c[i] = "-" THEN <<>>
          ELSE <<"x", "_", Digit(i - 1)>> \o (IF c[i] = negatedBit THEN <<"'">> ELSE <<>>))
         \o ProductText(c, negatedBit, i + 1)

RECURSIVE SumText(_, _)
SumText(groups, negatedBit) ==
    IF Len(groups) = 1 THEN ProductText(GroupCube(groups[1]), negatedBit, 1)
    ELSE ProductText(GroupCube(groups[1]), negatedBit, 1) \o <<" ", "+", " ">>
         \o SumText(Tail(groups), negatedBit)

NonConstantSop ==
    Returned /\ isSop /\ result.expression \notin {<<"0">>, <<"1">>}

(***************************************************************************)
(* C9 -- SOP literal polarity.  As claimed: a cube is printed as the       *)
(* product with the plain literal x_i for bit 0, the negated literal x_i'  *)
(* for bit 1 and no literal for '-'.                                       *)
(***************************************************************************)
SopPolarityZeroPlain ==
    NonConstantSop => result.expression = SumText(result.essentials, "1")

\* C9 as amended: bit 1 yields the plain literal x_i, bit 0 yields the
\* negated literal x_i', and '-' yields no literal.
SopPolarityOnePlain ==
    NonConstantSop => result.expression = SumText(result.essentials, "0")

SopPolarityWitness ==
    /\ NonConstantSop
    /\ Len(result.essentials) >= 2
    /\ \E k \in DOMAIN finalPIs : \E i, j \in DOMAIN finalPIs[k].term :
          finalPIs[k].term[i] = "0" /\ finalPIs[k].term[j] = "1"
    /\ \E k \in DOMAIN finalPIs : \E i \in DOMAIN finalPIs[k].term :
          finalPIs[k].term[i] = "-"

(***************************************************************************)
(* C10 -- End-to-end SOP example: solveCustom(2, [1,3], [], SOP) returns   *)
(* expression "x_1" and groups [[1,3]]; in general a cover made of the     *)
(* single cube that fixes only variable i, to 1, is printed as the single  *)
(* unnegated literal x_i.                                                  *)
(***************************************************************************)
\* the positions whose variable x_i is 1, in ascending order
OnesOf(i) == SetToSeq({p \in AllPositions : Bit(p, i) = 1})

EndToEndSop ==
    /\ Returned /\ isSop /\ variables = 2 /\ minterms = <<1, 3>> /\ dontCares = <<>>
          => result = [expression |-> <<"x", "_", "1">>, essentials |-> <<<<1, 3>>>>]
    /\ Returned /\ isSop =>
          \A i \in 0..(variables - 1) :
              result.essentials = <<OnesOf(i)>> =>
                  result.expression = <<"x", "_", Digit(i)>>

EndToEndSopWitness ==
    /\ Returned /\ isSop /\ variables = 3
    /\ result.essentials = <<OnesOf(2)>>
    /\ dontCareSet # {}

(***************************************************************************)
(* Text of a product of sums, written from the returned groups alone.      *)
(***************************************************************************)
\* the literals of a zero-cube: x_i for bit 0, x_i' for bit 1, none for '-'
RECURSIVE SumLiterals(_, _)
SumLiterals(c, i) ==
    IF i > Len(c) THEN <<>>
    ELSE (IF c[i] = "-" THEN <<>>
          ELSE <<<<"x", "_", Digit(i - 1)>> \o (IF c[i] = "1" THEN <<"'">> ELSE <<>>)>>)
         \o SumLiterals(c, i + 1)

RECURSIVE JoinPlus(_)
JoinPlus(lits) ==
    IF Len(lits) = 1 THEN lits[1]
    ELSE lits[1] \o <<" ", "+", " ">> \o JoinPlus(Tail(lits))

FactorText(c) == <<"(">> \o JoinPlus(SumLiterals(c, 1)) \o <<")">>

RECURSIVE FactorsText(_)
FactorsText(groups) ==
    IF groups = <<>> THEN <<>>
    ELSE FactorText(GroupCube(groups[1])) \o FactorsText(Tail(groups))

NonConstantPos ==
    Returned /\ ~ isSop /\ result.expression \notin {<<"0">>, <<"1">>}

(***************************************************************************)
(* C11 -- POS rendering: every zero-cube of the cover is printed as one    *)
(* parenthesised factor with the literal x_i for bit 0, x_i' for bit 1 and *)
(* nothing for '-', the literals joined by " + " and the factors           *)
(* concatenated in cover order; solveCustom(2, [1,3], [], POS) returns     *)
(* "(x_1)" with groups [[0,2]].                                            *)
(***************************************************************************)
PosRendering ==
    /\ NonConstantPos => result.expression = FactorsText(result.essentials)
    /\ Returned /\ ~ isSop /\ variables = 2 /\ minterms = <<1, 3>> /\ dontCares = <<>>
          => result = [expression |-> <<"(", "x", "_", "1", ")">>,
                       essentials |-> <<<<0, 2>>>>]

PosRenderingWitness ==
    /\ NonConstantPos
    /\ Len(result.essentials) >= 2
    /\ dontCareSet # {}
    /\ \E k \in DOMAIN finalPIs : \E i, j, d \in DOMAIN finalPIs[k].term :
          /\ finalPIs[k].term[i] = "0"
          /\ finalPIs[k].term[j] = "1"
          /\ finalPIs[k].term[d] = "-"

(***************************************************************************)
(* C15 -- Prime-implicant generation is complete and exact: after the      *)
(* combination loop and the deduplication, uniquePIs lists exactly the     *)
(* prime implicants of runQM's positions plus the don't-cares, each once,  *)
(* each with the full position set of its cube, and nothing else.          *)
(***************************************************************************)
AfterDedup == pc \in {"essential", "greedy", "format"}

PrimesExact ==
    AfterDedup =>
        /\ {uniquePIs[k].term : k \in DOMAIN uniquePIs} = PrimePatterns
        /\ \A j, k \in DOMAIN uniquePIs : uniquePIs[j].term = uniquePIs[k].term => j = k
        /\ \A k \in DOMAIN uniquePIs :
              uniquePIs[k].minterms = SetToSeq(CubePositions(uniquePIs[k].term))

PrimesExactWitness ==
    /\ pc = "format"
    /\ Len(uniquePIs) >= 3
    /\ Len(uniquePIs) > Len(finalPIs)
    /\ dontCareSet # {}
    /\ \E j, k \in DOMAIN uniquePIs : Len(uniquePIs[j].minterms) = 1
                                      /\ Len(uniquePIs[k].minterms) >= 2

(***************************************************************************)
(* C16 -- Greedy selection rule: the prime a greedy step adds covers the   *)
(* largest number of still-uncovered required positions among the primes   *)
(* not yet chosen, and among several such primes it is the first one in    *)
(* prime-generation order.                                                 *)
(***************************************************************************)
StillUncovered(k) ==
    Cardinality(Range(uniquePIs[k].minterms) \cap Range(remainingMinterms))

NotYetChosen == {k \in DOMAIN uniquePIs : uniquePIs[k] \notin Range(finalPIs)}

GreedyStepRule ==
    pc = "greedy" /\ Len(finalPIs') = Len(finalPIs) + 1 =>
        \E k \in NotYetChosen :
            /\ finalPIs' = Append(finalPIs, uniquePIs[k])
            /\ \A j \in NotYetChosen :
                  /\ StillUncovered(j) <= StillUncovered(k)
                  /\ StillUncovered(j) = StillUncovered(k) => k <= j

GreedyRule == [][GreedyStepRule]_vars

\* the greedy loop has chosen once and is about to choose among tied primes
GreedyRuleWitness ==
    /\ pc = "greedy"
    /\ Len(finalPIs) > essentialCount
    /\ Len(remainingMinterms) > 0
    /\ \E j, k \in NotYetChosen :
          /\ j < k
          /\ StillUncovered(j) = StillUncovered(k)
          /\ \A i \in NotYetChosen : StillUncovered(i) <= StillUncovered(k)

(***************************************************************************)
(* C17 -- Covering always completes: the essential loop and the greedy     *)
(* loop terminate, the greedy loop never leaves through its `else break`   *)
(* branch, and when covering has ended no required position is left        *)
(* uncovered.                                                              *)
(***************************************************************************)
InCovering == pc \in {"essential", "greedy"}

CoveringEnded == pc = "format"

\* a loop iteration that is followed by another one leaves fewer positions
\* uncovered, or is the essential loop's last one (changed goes to false)
LoopProgress ==
    InCovering /\ pc' = pc =>
        \/ Len(remainingMinterms') < Len(remainingMinterms)
        \/ /\ pc = "essential"
           /\ Len(remainingMinterms) > 0 /\ changed /\ ~ changed'
           /\ remainingMinterms' = remainingMinterms

CoveringCompletes ==
    /\ [](~ greedyBroke)
    /\ [](CoveringEnded => remainingMinterms = <<>>)
    /\ [][LoopProgress]_vars

CoveringCompletesWitness ==
    /\ CoveringEnded
    /\ essentialCount >= 1
    /\ Len(finalPIs) >= essentialCount + 1
    /\ dontCareSet # {}
    /\ remainingMinterms = <<>>

(***************************************************************************)
(* C20 -- Every group is a cube: each returned group lists, without        *)
(* duplicates, exactly the 2^k positions that match one pattern over       *)
(* {0,1,-} with k dashes; the same holds for every implicant of every      *)
(* combination round, whose position list is that of its own term.         *)
(***************************************************************************)
NoDuplicates(g) == \A i, j \in DOMAIN g : g[i] = g[j] => i = j

Dashes(c) == Cardinality({i \in DOMAIN c : c[i] = "-"})

IsCubeList(g, c) ==
    /\ NoDuplicates(g)
    /\ Range(g) = CubePositions(c)
    /\ Len(g) = pow2(Dashes(c))

GroupsAreCubes ==
    /\ Returned => \A k \in DOMAIN result.essentials :
                      \E c \in CubePatterns : IsCubeList(result.essentials[k], c)
    /\ pc = "combine" =>
          \A i \in DOMAIN currentGroups : \A a \in DOMAIN currentGroups[i] :
              /\ Len(currentGroups[i][a].term) = variables
              /\ IsCubeList(currentGroups[i][a].minterms, currentGroups[i][a].term)

GroupsAreCubesWitness ==
    /\ Returned
    /\ Len(result.essentials) >= 2
    /\ dontCareSet # {}
    /\ \E j, k \in DOMAIN result.essentials :
          Len(result.essentials[j]) = 2 /\ Len(result.essentials[k]) >= 4

(***************************************************************************)
(* C18 -- Minimal cyclic interval: for a cyclic size S in {2,4} and a      *)
(* non-empty set of used indices in [0,S), minimalCyclicInterval returns   *)
(* the smallest length L for which some cyclic window [start, start+L)     *)
(* mod S holds every used index, with the smallest start in [0,S) that is  *)
(* feasible for that L; when all S indices are used it returns start 0 and *)
(* length S.                                                               *)
(***************************************************************************)
WindowCells(start, L, S) == {(start + k) % S : k \in 0..(L - 1)}

Feasible(U, start, L, S) == U \subseteq WindowCells(start, L, S)

Measured == cyclic # Null /\ cyclic.result # Null

MinimalInterval ==
    Measured /\ Len(cyclic.indices) > 0 =>
        LET U == Range(cyclic.indices)
            S == cyclic.size
            r == cyclic.result
        IN /\ r.len \in 1..S
           /\ r.start \in 0..(S - 1)
           /\ Feasible(U, r.start, r.len, S)
           /\ \A L \in 1..(r.len - 1) : \A st \in 0..(S - 1) : ~ Feasible(U, st, L, S)
           /\ \A st \in 0..(r.start - 1) : ~ Feasible(U, st, r.len, S)
           /\ U = 0..(S - 1) => r = [start |-> 0, len |-> S]

\* a window that runs over the edge, found for indices listed with a repeat
MinimalIntervalWitness ==
    /\ Measured
    /\ cyclic.size = 4
    /\ Len(cyclic.indices) > Cardinality(Range(cyclic.indices))
    /\ cyclic.result.len \in {2, 3}
    /\ cyclic.result.start + cyclic.result.len > cyclic.size

(***************************************************************************)
(* Vocabulary of the overlay properties: the drawn maps and their tiles.   *)
(***************************************************************************)
Drawn == groupRects.rendered /\ result # Null

GridRows == 0..(Len(rowCodes(variables)) - 1)
GridCols == 0..(Len(colCodes(variables)) - 1)
GridCells == GridRows \X GridCols

\* the rects of map mi, and those that stem from group number g (counted from 0)
RectsOf(mi) == groupRects.maps[mi + 1]
TilesOf(mi, g) == SelectSeq(RectsOf(mi), LAMBDA t : t.groupId = g)

\* the grid cells under a tile, the tile clipped to the grid
TileCells(t) ==
    {cell \in GridCells : /\ t.y <= cell[1] /\ cell[1] < t.y + t.h
                          /\ t.x <= cell[2] /\ cell[2] < t.x + t.w}

\* the grid cells of map mi whose position is in group number g
GroupCells(mi, g) ==
    LET members == Range(result.essentials[g + 1])
    IN {cell \in GridCells : cellIndex(variables, cell[1], cell[2], mi) \in members}

GroupIds == {k - 1 : k \in DOMAIN result.essentials}

(***************************************************************************)
(* C12 -- Geometry validity: for every returned group and every drawn map, *)
(* the grid cells under the group's tiles (clipped to the grid, the tiles  *)
(* of a wrapping rectangle taken together) are exactly the grid cells      *)
(* whose position belongs to the group.                                    *)
(***************************************************************************)
GeometryExact ==
    Drawn =>
        \A mi \in mapIndices(variables) : \A g \in GroupIds :
            UNION {TileCells(TilesOf(mi, g)[k]) : k \in DOMAIN TilesOf(mi, g)}
                = GroupCells(mi, g)

\* a five-variable result with a group that lies in both maps and is drawn
\* in two tiles on each of them
GeometryExactWitness ==
    /\ Drawn
    /\ variables = 5
    /\ \E g \in GroupIds : /\ Len(TilesOf(0, g)) = 2 /\ Len(TilesOf(1, g)) = 2
                            /\ GroupCells(0, g) # {} /\ GroupCells(1, g) # {}

(***************************************************************************)
(* C14 -- Rectangle order: the list buildGroupOverlays returns is sorted   *)
(* by descending area (area = row length x column length of the logical    *)
(* rectangle), rectangles of equal area by ascending group index.          *)
(***************************************************************************)
RectOrder ==
    Drawn =>
        \A mi \in mapIndices(variables) :
            LET rects == RectsOf(mi)
            IN /\ \A k \in DOMAIN rects : rects[k].area = rects[k].w * rects[k].h
               /\ \A j, k \in DOMAIN rects :
                     j < k => \/ rects[j].area > rects[k].area
                              \/ /\ rects[j].area = rects[k].area
                                 /\ rects[j].groupId <= rects[k].groupId

\* the sort had to move a later, larger group ahead and to keep equal areas apart
RectOrderWitness ==
    /\ Drawn
    /\ \E j, k \in DOMAIN RectsOf(0) :
          j < k /\ RectsOf(0)[j].groupId > RectsOf(0)[k].groupId
    /\ \E j, k \in DOMAIN RectsOf(0) :
          /\ RectsOf(0)[j].area = RectsOf(0)[k].area
          /\ RectsOf(0)[j].groupId < RectsOf(0)[k].groupId

(***************************************************************************)
(* C19 -- Wrap splitting.  As claimed: every group yields one tile when    *)
(* neither of its intervals wraps, two when exactly one axis wraps (start  *)
(* + length > axis size) and four when both wrap, the tiles of a wrapping  *)
(* axis at offsets 0 and -S, all tiles of a group with the same width,     *)
(* height and area; no group yields any other number of tiles.             *)
(***************************************************************************)
\* the logical rectangle of a group on a map: the tile with the largest x and y
Anchor(tiles) ==
    CHOOSE t \in Range(tiles) : \A u \in Range(tiles) : u.x <= t.x /\ u.y <= t.y

\* the tiles a rectangle anchored at t splits into
SplitOffsets(t) ==
    {<<dx, dy>> \in {0, 0 - Len(colCodes(variables))} \X {0, 0 - Len(rowCodes(variables))} :
        /\ dx # 0 => t.x + t.w > Len(colCodes(variables))
        /\ dy # 0 => t.y + t.h > Len(rowCodes(variables))}

TilesSplit(tiles) ==
    LET t == Anchor(tiles)
    IN /\ t.x \in GridCols /\ t.y \in GridRows
       /\ Len(tiles) = Cardinality(SplitOffsets(t))
       /\ {<<u.x, u.y>> : u \in Range(tiles)}
              = {<<t.x + o[1], t.y + o[2]>> : o \in SplitOffsets(t)}
       /\ \A u \in Range(tiles) : u.w = t.w /\ u.h = t.h /\ u.area = t.area

WrapSplitEveryGroup ==
    Drawn =>
        \A mi \in mapIndices(variables) : \A g \in GroupIds :
            /\ Len(TilesOf(mi, g)) \in {1, 2, 4}
            /\ TilesSplit(TilesOf(mi, g))

\* C19 as amended: the same for every group that has at least one cell in
\* the drawn map; a group with no cell in the drawn map (a group of the other
\* map of a five-variable function) yields no tile.
WrapSplitGroupsOfMap ==
    Drawn =>
        \A mi \in mapIndices(variables) : \A g \in GroupIds :
            IF GroupCells(mi, g) = {}
            THEN Len(TilesOf(mi, g)) = 0
            ELSE /\ Len(TilesOf(mi, g)) \in {1, 2, 4}
                 /\ TilesSplit(TilesOf(mi, g))

\* a five-variable result with a group drawn in four tiles on map 0 and in
\* none on map 1
WrapSplitWitness ==
    /\ Drawn
    /\ variables = 5
    /\ \E g \in GroupIds : Len(TilesOf(0, g)) = 4 /\ Len(TilesOf(1, g)) = 0

(***************************************************************************)
(* C13 -- The caller keeps the solver's precondition: after any sequence   *)
(* of UI operations, every Solve invokes solveCustom only with minterm and *)
(* don't-care lists that are disjoint and whose positions all lie in       *)
(* [0, 2^numVars) for the currently selected numVars.                      *)
(***************************************************************************)
\* solveCustom has been invoked and has not started to run
Invoked == pc = "call"

PreconditionKept ==
    Invoked =>
        /\ variables \in MinVars..MaxVars
        /\ Range(minterms) \cap Range(dontCares) = {}
        /\ \A p \in Range(minterms) \cup Range(dontCares) :
              0 <= p /\ p < pow2(variables)

(***************************************************************************)
(* C21: a displayed result always matches the selected form: whenever the  *)
(* app holds a result, the form recorded in result.meta is the selected    *)
(* form; a form change made while a result is shown clears the result and  *)
(* sets the message to modeChanged.  solveLocal is synchronous, so the     *)
(* continuation of solve runs before any further user event is handled.    *)
(***************************************************************************)
ResultShown == app.result # Null

FormChanged == app'.isSop # app.isSop

FormChangeClears ==
    (FormChanged /\ ResultShown) =>
        /\ app'.result = Null
        /\ app'.messageKey = "modeChanged"

ResultMatchesForm ==
    /\ [](ResultShown => app.result.meta.isSop = app.isSop)
    /\ [][FormChangeClears]_vars

\* a result was on the screen when the form was changed to POS
ResultMatchesFormWitness ==
    /\ app.messageKey = "modeChanged"
    /\ ~ ResultShown
    /\ ~ app.isSop

(***************************************************************************)
(* C22: the K-map labels agree with the bit layout: the variables named    *)
(* for the columns, the rows and the map selector are the x_i (bit i of    *)
(* the position, most significant bit first) whose bits getMintermIndex    *)
(* takes from the column code, the row code and the map index.             *)
(***************************************************************************)
\* bit i (0 = most significant) of position p written on v bits
BitOf(p, i, v) == (p \div pow2(v - 1 - i)) % 2

\* the bits of the position that change with the column, the row, the map
ColBits(v) ==
    {i \in 0..(v - 1) : \E r \in GridRows, c1, c2 \in GridCols, m \in mapIndices(v) :
        BitOf(cellIndex(v, r, c1, m), i, v) # BitOf(cellIndex(v, r, c2, m), i, v)}

RowBits(v) ==
    {i \in 0..(v - 1) : \E r1, r2 \in GridRows, c \in GridCols, m \in mapIndices(v) :
        BitOf(cellIndex(v, r1, c, m), i, v) # BitOf(cellIndex(v, r2, c, m), i, v)}

MapBits(v) ==
    {i \in 0..(v - 1) : \E r \in GridRows, c \in GridCols, m1, m2 \in mapIndices(v) :
        BitOf(cellIndex(v, r, c, m1), i, v) # BitOf(cellIndex(v, r, c, m2), i, v)}

\* the names the solver and the truth table give to a set of bits
NamesOf(bits, v) == {varNames(v)[i + 1] : i \in bits}

LabelsAgree ==
    groupRects.rendered =>
        /\ Range(groupRects.labels.cols) = NamesOf(ColBits(variables), variables)
        /\ Range(groupRects.labels.rows) = NamesOf(RowBits(variables), variables)
        /\ Range(groupRects.labels.map) = NamesOf(MapBits(variables), variables)

(***************************************************************************)
(* C23: Gray-code contract: for n in {1,2}, generateGrayCodes(n) is a list *)
(* of 2^n distinct n-bit strings in which consecutive codes, and the last  *)
(* and the first, differ in exactly one bit; in a rendered K-map the cells *)
(* of each map correspond one-to-one to the positions of that map and      *)
(* cyclically adjacent cells have positions differing in exactly one bit.  *)
(***************************************************************************)
GrayWidths == {1, 2}

DiffCount(a, b) == Cardinality({i \in DOMAIN a : a[i] # b[i]})

IsGrayCycle(codes, n) ==
    /\ Len(codes) = pow2(n)
    /\ \A i \in DOMAIN codes : Len(codes[i]) = n /\ Range(codes[i]) \subseteq {"0", "1"}
    /\ \A i, j \in DOMAIN codes : i # j => codes[i] # codes[j]
    /\ \A i \in DOMAIN codes :
          DiffCount(codes[i], codes[(i % Len(codes)) + 1]) = 1

\* the positions drawn in map m of a function of v variables
PositionsOfMap(v, m) ==
    IF v = 5 THEN {p \in 0..(pow2(v) - 1) : BitOf(p, 0, v) = m} ELSE 0..(pow2(v) - 1)

OneBitApart(p, q, v) == Cardinality({i \in 0..(v - 1) : BitOf(p, i, v) # BitOf(q, i, v)}) = 1

CellsMatchPositions(v) ==
    \A m \in mapIndices(v) :
        /\ {cellIndex(v, rc[1], rc[2], m) : rc \in GridCells} = PositionsOfMap(v, m)
        /\ \A a, b \in GridCells :
              a # b => cellIndex(v, a[1], a[2], m) # cellIndex(v, b[1], b[2], m)
        /\ \A rc \in GridCells :
              LET right == (rc[2] + 1) % Cardinality(GridCols)
                  below == (rc[1] + 1) % Cardinality(GridRows)
                  here == cellIndex(v, rc[1], rc[2], m)
              IN /\ OneBitApart(here, cellIndex(v, rc[1], right, m), v)
                 /\ OneBitApart(here, cellIndex(v, below, rc[2], m), v)

GrayCodeContract ==
    /\ \A n \in GrayWidths : IsGrayCycle(generateGrayCodes(n), n)
    /\ groupRects.rendered => CellsMatchPositions(variables)

\* a rendered 2 x 4 map: one code list of each width, with a group drawn on it
GrayCodeContractWitness ==
    /\ groupRects.rendered
    /\ variables = 3
    /\ Len(groupRects.maps[1]) >= 1

\* the call that ended returned, or threw, what the function gives
FunctionAgrees ==
    pc = "done" =>
        IF threw THEN solveCustom(variables, minterms, dontCares, isSop) = Thrown
        ELSE result = solveCustom(variables, minterms, dontCares, isSop)

(***************************************************************************)
(* C24: a displayed result is never stale: whenever the app holds a        *)
(* result, its expression and essentials are the solver's output for the   *)
(* current grid contents and result.meta.variables is the current numVars. *)
(***************************************************************************)
CurrentOutput ==
    LET sets == buildMintermsFromGrid(app.grid)
    IN solveCustom(app.numVars, sets.minterms, sets.dontCares, app.isSop)

ResultNeverStale ==
    ResultShown =>
        /\ app.result.meta.variables = app.numVars
        /\ CurrentOutput # Thrown
        /\ app.result.expression = CurrentOutput.expression
        /\ app.result.essentials = CurrentOutput.essentials

(***************************************************************************)
(* C25: solve outcome handling: every Solve sets isSolving and clears the  *)
(* message; when solveCustom returns, result becomes its output tagged     *)
(* with the form and variable count in effect when Solve was pressed; when *)
(* it throws, result becomes null and the message solveFailed; in both     *)
(* cases isSolving becomes false again: a solve in flight is never idle,   *)
(* each of its steps lowers a bounded rank, and its last step resets       *)
(* isSolving.                                                              *)
(***************************************************************************)
SolvePressed == ~ app.isSolving /\ app'.isSolving

SolveSettled == app.isSolving /\ ~ app'.isSolving

\* the arguments of the call are the values in effect at the press, and
\* they stay in effect while the solve is in flight
SolveStep ==
    /\ SolvePressed =>
          /\ app'.messageKey = "null"
          /\ pc' = "call"
          /\ variables' = app.numVars
          /\ isSop' = app.isSop
          /\ minterms' = buildMintermsFromGrid(app.grid).minterms
          /\ dontCares' = buildMintermsFromGrid(app.grid).dontCares
    /\ (app.isSolving /\ app'.isSolving) =>
          /\ app' = app
          /\ UNCHANGED inputVars
    /\ SolveSettled =>
          /\ app'.isSop = app.isSop
          /\ app'.numVars = app.numVars
          /\ app'.grid = app.grid
          /\ IF threw
             THEN /\ app'.result = Null
                  /\ app'.messageKey = "solveFailed"
             ELSE /\ app'.result =
                        [expression |-> result.expression,
                         essentials |-> result.essentials,
                         meta |-> [isSop |-> isSop, variables |-> variables]]
                  /\ app'.messageKey = "null"

\* the steps left to a solve in flight, ordered by phase and then by the
\* work left to the loop of that phase; every phase has a step that is
\* enabled by pc alone, and nothing else runs while isSolving holds
PhaseRank ==
    CASE pc = "call" -> 6 [] pc = "combine" -> 5 [] pc = "cover" -> 4
      [] pc = "essential" -> 3 [] pc = "greedy" -> 2 [] pc = "format" -> 1
      [] pc = "done" -> 0 [] pc = "idle" -> 7

LoopRank ==
    IF pc = "combine"
    THEN LET cubes == Flat(currentGroups)
         IN IF cubes = <<>> THEN 0
            ELSE Cardinality({i \in DOMAIN cubes[1].term : cubes[1].term[i] # "-"})
    ELSE IF pc = "essential"
    THEN 2 * Len(remainingMinterms) + (IF changed THEN 1 ELSE 0)
    ELSE IF pc = "greedy" THEN Len(remainingMinterms)
    ELSE 0

SolveAdvances ==
    (app.isSolving /\ app'.isSolving) =>
        \/ PhaseRank' < PhaseRank
        \/ PhaseRank' = PhaseRank /\ LoopRank' < LoopRank

SolveOutcome ==
    /\ [][SolveStep]_vars
    /\ [][SolveAdvances]_vars
    /\ [](app.isSolving <=> pc # "idle")
    /\ [][SolveSettled => pc = "done"]_vars

\* a Solve whose call threw has been handled
SolveOutcomeWitness ==
    /\ app.messageKey = "solveFailed"
    /\ app.result = Null
    /\ ~ app.isSolving

(***************************************************************************)
(* lib/logic-circuit: the expression parsed back into clauses.             *)
(***************************************************************************)
\* String.prototype.trim, for the blanks the expressions contain
RECURSIVE trim(_)
trim(s) ==
    IF s = <<>> THEN s
    ELSE IF s[1] = " " THEN trim(Tail(s))
    ELSE IF s[Len(s)] = " " THEN trim(SubSeq(s, 1, Len(s) - 1))
    ELSE s

\* the index after the run of digits that starts at i
RECURSIVE digitsEnd(_, _)
digitsEnd(s, i) == IF i <= Len(s) /\ IsDigit(s[i]) THEN digitsEnd(s, i + 1) ELSE i

\* Number(match[1]) for a run of decimal digits
RECURSIVE parseDecimal(_)
parseDecimal(ds) ==
    IF ds = <<>> THEN 0
    ELSE 10 * parseDecimal(SubSeq(ds, 1, Len(ds) - 1))
         + (CHOOSE d \in 0..9 : Digit(d) = ds[Len(ds)])

\* does x_<digits> start at index i of s
literalAt(s, i) ==
    /\ i + 2 <= Len(s)
    /\ s[i] = "x"
    /\ s[i + 1] = "_"
    /\ IsDigit(s[i + 2])

\* the index after the literal x_<digits>'? that starts at i
literalEnd(s, i) ==
    LET e == digitsEnd(s, i + 2)
    IN IF e <= Len(s) /\ s[e] = "'" THEN e + 1 ELSE e

\* a negation test that takes every literal as plain
isNegatedNever(token, e) == FALSE

\* match[2] === "'": the character after the digits
isNegated(token, e) == e <= Len(token) /\ token[e] = "'"

\* parseLiteral: token.trim().match(/^x_(\d+)('?)/), null when no match
parseLiteral(token) ==
    LET t == trim(token)
    IN IF ~ literalAt(t, 1) THEN Null
       ELSE LET e == digitsEnd(t, 3)
            IN [variable |-> parseDecimal(SubSeq(t, 3, e - 1)),
                negated |-> isNegated(t, e)]

\* term.match(/x_\d+'?/g) ?? []
RECURSIVE literalTokens(_, _)
literalTokens(s, i) ==
    IF i > Len(s) THEN <<>>
    ELSE IF literalAt(s, i)
    THEN <<SubSeq(s, i, literalEnd(s, i) - 1)>> \o literalTokens(s, literalEnd(s, i))
    ELSE literalTokens(s, i + 1)

\* does sep occur in s at index i
occursAt(s, sep, i) ==
    /\ i + Len(sep) - 1 <= Len(s)
    /\ SubSeq(s, i, i + Len(sep) - 1) = sep

\* String.prototype.split(sep) for a non-empty separator
RECURSIVE splitFrom(_, _, _, _)
splitFrom(s, sep, start, i) ==
    IF i > Len(s) THEN <<SubSeq(s, start, Len(s))>>
    ELSE IF occursAt(s, sep, i)
    THEN <<SubSeq(s, start, i - 1)>> \o splitFrom(s, sep, i + Len(sep), i + Len(sep))
    ELSE splitFrom(s, sep, start, i + 1)

split(s, sep) == splitFrom(s, sep, 1, 1)

\* tokens.map(parseLiteral).filter(item => item !== null)
literalsOf(tokens) ==
    LET parsed == [k \in DOMAIN tokens |-> parseLiteral(tokens[k])]
    IN SelectSeq(parsed, LAMBDA l : l # Null)

\* .filter(clause => clause.literals.length > 0)
nonEmptyClauses(clauses) == SelectSeq(clauses, LAMBDA c : Len(c.literals) > 0)

parseSopExpression(expression) ==
    LET terms == split(expression, <<" ", "+", " ">>)
    IN nonEmptyClauses([k \in DOMAIN terms |->
                           [literals |-> literalsOf(literalTokens(terms[k], 1))]])

\* the index of the first parenthesis at or after i, Len(s) + 1 when none
RECURSIVE nextParen(_, _)
nextParen(s, i) ==
    IF i > Len(s) THEN i
    ELSE IF s[i] \in {"(", ")"} THEN i
    ELSE nextParen(s, i + 1)

\* expression.matchAll(/\(([^()]*)\)/g): the text inside each pair
RECURSIVE factorsOf(_, _)
factorsOf(s, i) ==
    IF i > Len(s) THEN <<>>
    ELSE IF s[i] = "("
    THEN LET j == nextParen(s, i + 1)
         IN IF j <= Len(s) /\ s[j] = ")"
            THEN <<SubSeq(s, i + 1, j - 1)>> \o factorsOf(s, j + 1)
            ELSE factorsOf(s, i + 1)
    ELSE factorsOf(s, i + 1)

parsePosExpression(expression) ==
    LET factors == factorsOf(expression, 1)
    IN nonEmptyClauses([k \in DOMAIN factors |->
          LET parts == split(factors[k], <<"+">>)
              raw == SelectSeq([j \in DOMAIN parts |-> trim(parts[j])],
                               LAMBDA t : t # <<>>)
          IN [literals |-> literalsOf(raw)]])

buildCircuitDefinition(expression, sop) ==
    LET normalized == trim(expression)
    IN IF normalized = <<"0">> \/ normalized = <<"1">>
       THEN [mode |-> IF sop THEN "SOP" ELSE "POS", clauses |-> <<>>,
             constant |-> normalized]
       ELSE [mode |-> IF sop THEN "SOP" ELSE "POS",
             clauses |-> IF sop THEN parseSopExpression(normalized)
                         ELSE parsePosExpression(normalized),
             constant |-> Null]

(***************************************************************************)
(* C29: circuit parsing round trip: for every result of solveCustom,       *)
(* buildCircuitDefinition(expression, isSop) gives constant = expression   *)
(* and no clause when the expression is "0" or "1", and otherwise constant *)
(* null and one clause per group, in the same order, whose literals are    *)
(* the constrained bits of that group's cube with the index and negation   *)
(* that the formatter printed.                                             *)
(***************************************************************************)
\* the literals of cube c, a bit equal to negatedBit giving a negated literal
CubeLiterals(c, negatedBit) ==
    LET fixed == SelectSeq([i \in 1..Len(c) |-> i], LAMBDA i : c[i] # "-")
    IN [k \in DOMAIN fixed |->
           [variable |-> fixed[k] - 1, negated |-> c[fixed[k]] = negatedBit]]

Circuit == buildCircuitDefinition(result.expression, isSop)

CircuitRoundTrip ==
    Returned =>
        IF result.expression \in {<<"0">>, <<"1">>}
        THEN Circuit.constant = result.expression /\ Circuit.clauses = <<>>
        ELSE /\ Circuit.constant = Null
             /\ Len(Circuit.clauses) = Len(result.essentials)
             /\ \A k \in DOMAIN result.essentials :
                   Circuit.clauses[k].literals =
                       CubeLiterals(GroupCube(result.essentials[k]),
                                    IF isSop THEN "0" ELSE "1")

\* a POS result of two factors, one with several literals and a negated one
CircuitRoundTripWitness ==
    /\ Returned
    /\ ~ isSop
    /\ Len(Circuit.clauses) >= 2
    /\ \E k \in DOMAIN Circuit.clauses :
          /\ Len(Circuit.clauses[k].literals) >= 2
          /\ \E j \in DOMAIN Circuit.clauses[k].literals :
                Circuit.clauses[k].literals[j].negated

(***************************************************************************)
(* C26: order independence: the result of solveCustom depends only on the  *)
(* sets of true and don't-care positions; for two orders of the same       *)
(* arrays the returned expression denotes the same set of cubes and the    *)
(* returned groups are the same collection of position sets.               *)
(***************************************************************************)
\* the cubes an expression denotes: its constant, or its clauses as sets
CubesDenoted(expression, sop) ==
    LET def == buildCircuitDefinition(expression, sop)
    IN [constant |-> def.constant,
        cubes |-> {Range(def.clauses[k].literals) : k \in DOMAIN def.clauses}]

PositionSets(groups) == {Range(groups[k]) : k \in DOMAIN groups}

NoPrimeTwice(pis) ==
    \A j, k \in DOMAIN pis : j # k => pis[j].term # pis[k].term

DontCaresOnlyFiller ==
    /\ NoPrimeTwice(finalPIs)
    /\ Returned =>
          /\ \A k \in DOMAIN result.essentials :
                /\ Range(result.essentials[k]) \cap Required # {}
                /\ Range(result.essentials[k]) \subseteq Required \cup dontCareSet
                /\ ~ (Range(result.essentials[k]) \subseteq dontCareSet)
          /\ \A j, k \in DOMAIN result.essentials :
                j # k => Range(result.essentials[j]) # Range(result.essentials[k])

\* a cover of several primes, one of them widened by a don't-care position,
\* for a function with a don't-care position that no chosen prime uses
DontCaresOnlyFillerWitness ==
    /\ Returned
    /\ Len(result.essentials) >= 2
    /\ GroupUnion \cap dontCareSet # {}
    /\ dontCareSet \ GroupUnion # {}
    /\ essentialCount >= 1
    /\ Len(finalPIs) > essentialCount

(***************************************************************************)
(* C28: expression and groups are aligned: for every non-constant result   *)
(* the number of terms (SOP) or factors (POS) of the expression equals the *)
(* number of groups, and the k-th term or factor is the rendering of the   *)
(* cube whose position set is groups[k]; a SOP expression never has the    *)
(* term "1" among its terms and a POS expression never has the factor      *)
(* "(0)".                                                                  *)
(***************************************************************************)
NonConstant == Returned /\ result.expression \notin {<<"0">>, <<"1">>}

\* the terms of a sum, and the factors of a product, cut out of the text
TermsIn(expression) == split(expression, <<" ", "+", " ">>)

FactorsIn(expression) ==
    LET pieces == split(expression, <<")">>)
    IN [k \in 1..(Len(pieces) - 1) |-> pieces[k] \o <<")">>]

PartsIn(expression) == IF isSop THEN TermsIn(expression) ELSE FactorsIn(expression)

ExpressionAligned ==
    NonConstant =>
        LET parts == PartsIn(result.expression)
        IN /\ Len(parts) = Len(result.essentials)
           /\ \A k \in DOMAIN result.essentials :
                 parts[k] = IF isSop
                            THEN ProductText(GroupCube(result.essentials[k]), "0", 1)
                            ELSE FactorText(GroupCube(result.essentials[k]))
           /\ \A k \in DOMAIN parts : parts[k] \notin {<<"1">>, <<"(", "0", ")">>}

\* a cover of three cubes of different sizes
ExpressionAlignedWitness ==
    /\ NonConstant
    /\ Len(result.essentials) >= 3
    /\ \E j, k \in DOMAIN result.essentials :
          Len(result.essentials[j]) # Len(result.essentials[k])

(***************************************************************************)
(* C30: truth-table modal edits are a draft: toggling rows or pressing     *)
(* Clear in the modal changes only the draft table; closing with Cancel or *)
(* the backdrop leaves the grid, the result and the message unchanged, and *)
(* opening the modal shows the map's current values rather than a          *)
(* discarded draft; only OK applies the draft, after which the grid's      *)
(* minterm and don't-care sets are those of the draft and the result and   *)
(* the message are cleared.                                                *)
(***************************************************************************)
\* a modal handler named h has just run
ModalRan(h) == app'.events # app.events /\ app'.lastModal = h /\ (app.ttOpen \/ app'.ttOpen)

PageKept ==
    /\ app'.grid = app.grid
    /\ app'.result = app.result
    /\ app'.messageKey = app.messageKey
    /\ app'.numVars = app.numVars
    /\ app'.isSop = app.isSop

DraftStep ==
    /\ (ModalRan("toggle") \/ ModalRan("clear")) => PageKept /\ app'.ttOpen
    /\ ModalRan("cancel") => PageKept /\ ~ app'.ttOpen
    /\ ModalRan("open") => PageKept /\ app'.table = syncedTable
    /\ ModalRan("ok") =>
          /\ buildMintermsFromGrid(app'.grid).minterms
                = setsFromTable(app.numVars, app.table).minterms
          /\ buildMintermsFromGrid(app'.grid).dontCares
                = setsFromTable(app.numVars, app.table).dontCares
          /\ app'.result = Null
          /\ app'.messageKey = "null"
          /\ ~ app'.ttOpen
    /\ (app.ttOpen /\ app'.grid # app.grid) => ModalRan("ok")

ModalIsDraft == [][DraftStep]_vars

\* a result is on the page and an edited draft has just been discarded
ModalIsDraftWitness ==
    /\ app.lastModal = "cancel"
    /\ ~ app.ttOpen
    /\ app.table # syncedTable
    /\ app.result # Null

====
